---- MODULE Spec2Model ----
(***************************************************************************)
(* A model of the MAVLink interception proxy: the batch aggregator         *)
(* (src/src/batch.rs), the action executor of the GCS->router direction    *)
(* (src/src/proxy.rs) and the rule engine with its rule-state manager      *)
(* (src/src/rules.rs, src/src/rule_state.rs, src/src/config.rs).           *)
(*                                                                         *)
(* Spec      : client pumps, the executor, delay tasks, the aggregator     *)
(*             and its timeout tasks, over a discrete clock.               *)
(* SpecRules : rule loading (priority sort), rule matching, triggers,      *)
(*             plugins, ACK descriptors and the expiry sweeper.            *)
(***************************************************************************)
EXTENDS Integers, Sequences, FiniteSets, TLC

(***************************************************************************)
(* Bounds of the model.                                                    *)
(***************************************************************************)
NumClients == 2
MaxFrames == 3
MaxTime == 1
MaxSys == 2
MaxPackets == 2

Clients == 1..NumClients
SysIds == 1..MaxSys

VARIABLES
    now,          \* the monotonic clock (tokio::time::Instant), in seconds
    nextFrame,    \* identity of the next frame read from a GCS client
    running,      \* executor invocations in progress: [owner, acts, pkts]
    delayed,      \* sleeping Delay tasks: [deadline, acts, pkts]
    batches,      \* BatchManager.batches: the live BatchState entries
    timeouts,     \* sleeping batch-timeout tasks: [key, deadline, spawnedFor]
    tmo,          \* the handle_timeout call that holds the batch-map lock
    routerOut,    \* frames written to the router sink, in write order
    nextBatch,    \* history: creation identity of the next BatchState
    tailRuns,     \* history: per batch identity, executor invocations on its tail
    ended,        \* history: the events that removed a batch from the map:
                  \* [batch, by, task, state, released], task being the batch
                  \* the acting timeout task was spawned for
    blocked       \* history: identities of the frames an executor invocation
                  \* held when it reached a Block step

batchVars == <<now, nextFrame, running, delayed, batches, timeouts, tmo,
               routerOut, nextBatch, tailRuns, ended, blocked>>

\* everything of the batch side but the clock
batchRest == <<nextFrame, running, delayed, batches, timeouts, tmo,
               routerOut, nextBatch, tailRuns, ended, blocked>>

VARIABLES
    fileRules,    \* Config.rules as written in the configuration file
    rules,        \* RuleEngine.rules: Config.rules after Config::load
    activations,  \* RuleStateManager.activations: rule name -> RuleActivation
    pump          \* per direction, the process_message_with_direction call of
                  \* that pump: its position and, as history, what it did

ruleVars == <<fileRules, rules, activations, pump>>

VARIABLES
    clients,      \* ProxyState.gcs_clients: the registered GCS clients
    nextClient,   \* ProxyState.next_client_id
    gcsOut,       \* per GCS client, the frames written to its socket
    bcast,        \* broadcast_to_all_gcs calls in progress: [owner, pkt, todo]
    bdelayed,     \* sleeping Delay tasks of the router->GCS direction
    reads         \* history: per frame identity, who sent it and what the
                  \* pump got for it: [from, parsed, msg, source, actions, ack]

proxyVars == <<clients, nextClient, gcsOut, bcast, bdelayed, reads>>

VARIABLES
    nextSweep,    \* the instant of the next tick of the cleanup task's interval
    last          \* history: per rule name, the most recent activate_rule or
                  \* deactivate_rule call: [op, deadline, context, before]

sweepVars == <<nextSweep, last>>

VARIABLES
    reader,       \* one read_mavlink_packet call: the bytes its stream will
                  \* deliver, how many it has consumed, where the call stands,
                  \* the buffers it has filled and what it returned
    tasks,        \* per task, the lock and socket operations it has yet to do
    locks,        \* per tokio RwLock, its holders and its queue of waiters
    wire          \* per socket, the chunks written to it, in order

ioVars == <<reader, tasks, locks, wire>>

vars == <<batchVars, ruleVars, proxyVars, sweepVars, ioVars>>

(***************************************************************************)
(* Action steps (rules.rs, enum Action).  One record shape for all kinds.  *)
(***************************************************************************)
NoAct == [t |-> "None", d |-> 0, count |-> 0, timeout |-> 0, key |-> "",
          forward_on_timeout |-> FALSE, msg |-> ""]
Forward == [NoAct EXCEPT !.t = "Forward"]
Block == [NoAct EXCEPT !.t = "Block"]
Delay(d) == [NoAct EXCEPT !.t = "Delay", !.d = d]
Modify(m) == [NoAct EXCEPT !.t = "Modify", !.msg = m]
Batch(count, timeout, key, fot) ==
    [NoAct EXCEPT !.t = "Batch", !.count = count, !.timeout = timeout,
                  !.key = key, !.forward_on_timeout = fot]

\* The action lists the rule engine hands to a client pump in this
\* configuration: the default [Forward] and three batching rules.
RuleActions ==
    { <<Forward>>,
      <<Batch(2, 1, "arm", TRUE), Modify("disarm")>>,
      <<Batch(2, 1, "arm", FALSE), Forward>>,
      <<Batch(2, 2, "land", TRUE), Delay(1), Block>> }

Frame(id, sys) == [id |-> id, sys |-> sys, body |-> "orig"]

NoTimeout == [active |-> FALSE, pkts |-> <<>>]

(***************************************************************************)
(* BatchState and the batch map (batch.rs).  The map is the set of its     *)
(* entries, each carrying its key.  Three fields are history only (the     *)
(* program stores none of them): `id`, the creation identity of the entry, *)
(* `log`, the frames passed to queue_or_release for it, in lock order, and *)
(* `call`, the action list, Batch step first, of the call that made it.    *)
(***************************************************************************)
BatchStateNew(key, id, threshold, fot, remaining, call) ==
    [key |-> key, id |-> id, log |-> <<>>, packets |-> <<>>, systems |-> {},
     threshold |-> threshold, created_at |-> now,
     forward_on_timeout |-> fot, remaining_actions |-> remaining, call |-> call]

\* mutant: the new packet is put in front of the queue
AddPacketInFront(b, system_id, data) ==
    [b EXCEPT !.systems = @ \cup {system_id}, !.packets = <<data>> \o @]

AddPacket(b, system_id, data) ==
    [b EXCEPT !.systems = @ \cup {system_id}, !.packets = Append(@, data)]

\* mutant: readiness counts queued packets instead of distinct systems
IsReadyByPackets(b) == Len(b.packets) >= b.threshold

IsReady(b) == Cardinality(b.systems) >= b.threshold

\* mutant: the queue is cleared before it is handed back
ReleaseNothing(b) == [packets |-> <<>>, remaining_actions |-> b.remaining_actions]

\* mutant: only the first queued packet is handed back
ReleaseFirstOnly(b) ==
    [packets |-> <<Head(b.packets)>>, remaining_actions |-> b.remaining_actions]

Release(b) == [packets |-> b.packets, remaining_actions |-> b.remaining_actions]

ContainsKey(bs, key) == \E b \in bs : b.key = key

Get(bs, key) == CHOOSE b \in bs : b.key = key

\* mutant: a new entry is made whether or not the key is present
InsertAlways(bs, key, new) == bs \cup {new}

\* mutant: an entry that is present takes the parameters of this call
InsertOrUpdate(bs, key, new) ==
    IF ContainsKey(bs, key)
    THEN {IF b.key = key
          THEN [b EXCEPT !.threshold = new.threshold,
                         !.forward_on_timeout = new.forward_on_timeout,
                         !.remaining_actions = new.remaining_actions]
          ELSE b : b \in bs}
    ELSE bs \cup {new}

\* batches.entry(key).or_insert_with(..)
OrInsertWith(bs, key, new) == IF ContainsKey(bs, key) THEN bs ELSE bs \cup {new}

\* mutant: the entry stays in the map
RemoveNothing(bs, key) == bs

\* batches.remove(&key)
Remove(bs, key) == {b \in bs : b.key # key}

\* mutant: the flag is ignored, a timed-out batch is always forwarded
TimeoutForwardsAlways(b) == TRUE

\* if batch.forward_on_timeout { .. } else { .. } of handle_timeout
TimeoutForwards(b) == b.forward_on_timeout

\* the packets handle_timeout sends: all of them, or none when it drops
TimeoutPackets(b) == IF TimeoutForwards(b) THEN Release(b).packets ELSE <<>>

\* mutant: a Batch step hands the last of its frames to the aggregator
BatchPacketLast(pkts) == pkts[Len(pkts)]

\* the packet handed to the aggregator by a Batch step
BatchPacket(pkts) == Head(pkts)

(***************************************************************************)
(* A Modify step on one frame: the header is kept, the body becomes the    *)
(* pre-computed modified message; without one the frame is kept.  A frame  *)
(* whose bytes parse_mavlink_message rejects has the body "garbled"; a     *)
(* frame for whose header write_versioned_msg returns an error has the     *)
(* body "unencodable".  Both are kept as they are.                         *)
(***************************************************************************)
Parses(f) == f.body # "garbled"

Encodes(f, m) == f.body # "unencodable"

ModifyFrame(f, m) ==
    IF m = "" THEN f
    ELSE IF Parses(f)
         THEN IF Encodes(f, m) THEN [f EXCEPT !.body = m] ELSE f
         ELSE f

\* mutant: a frame that cannot be parsed or encoded is left out
ModifyFramesDropFailed(pkts, m) ==
    LET kept == IF m = "" THEN pkts
                ELSE SelectSeq(pkts, LAMBDA f : Parses(f) /\ Encodes(f, m))
    IN  [i \in 1..Len(kept) |-> ModifyFrame(kept[i], m)]

ModifyFrames(pkts, m) == [i \in 1..Len(pkts) |-> ModifyFrame(pkts[i], m)]

Ctx(owner, acts, pkts) == [owner |-> owner, acts |-> acts, pkts |-> pkts]

Idle(c) == ~\E e \in running : e.owner = c

(***************************************************************************)
(* execute_actions_impl from its entry to its first suspension point.      *)
(* Forward, Block, Modify and the spawn of a Delay task do not await; the  *)
(* executor suspends on the router write lock (empty list) and on the      *)
(* batch-map lock (Batch).  The result says where the invocation stands:   *)
(* "done" (returned), "write", "batch", or "delay" (returned after         *)
(* spawning a task that sleeps d and resumes with acts and pkts).          *)
(***************************************************************************)
Outcome(kind, d, acts, pkts) == [kind |-> kind, d |-> d, acts |-> acts, pkts |-> pkts]

\* mutant: a Block step lets the frames through to the remaining actions
RECURSIVE ExecuteActionsImplBlockForwards(_, _)
ExecuteActionsImplBlockForwards(acts, pkts) ==
    IF acts = <<>>
    THEN IF pkts = <<>> THEN Outcome("done", 0, <<>>, <<>>)
                        ELSE Outcome("write", 0, <<>>, pkts)
    ELSE LET action == Head(acts)
             remaining_actions == Tail(acts)
         IN  CASE action.t \in {"Forward", "Block"} ->
                      ExecuteActionsImplBlockForwards(remaining_actions, pkts)
               [] action.t = "Modify" ->
                      ExecuteActionsImplBlockForwards(remaining_actions,
                                                      ModifyFrames(pkts, action.msg))
               [] action.t = "Delay" -> Outcome("delay", action.d, remaining_actions, pkts)
               [] action.t = "Batch" -> Outcome("batch", 0, acts, pkts)

RECURSIVE ExecuteActionsImpl(_, _)
ExecuteActionsImpl(acts, pkts) ==
    IF acts = <<>>
    THEN IF pkts = <<>> THEN Outcome("done", 0, <<>>, <<>>)
                        ELSE Outcome("write", 0, <<>>, pkts)
    ELSE LET action == Head(acts)
             remaining_actions == Tail(acts)
         IN  CASE action.t = "Forward" -> ExecuteActionsImpl(remaining_actions, pkts)
               [] action.t = "Block" -> Outcome("done", 0, <<>>, <<>>)
               [] action.t = "Modify" ->
                      ExecuteActionsImpl(remaining_actions, ModifyFrames(pkts, action.msg))
               [] action.t = "Delay" -> Outcome("delay", action.d, remaining_actions, pkts)
               [] action.t = "Batch" -> Outcome("batch", 0, acts, pkts)

\* mutant: the invocation also waits for the Delay task it spawned
SuspendedOnDelay(owner, r) ==
    IF r.kind \in {"write", "batch", "delay"} THEN {Ctx(owner, r.acts, r.pkts)} ELSE {}

\* the invocation as it stands after the synchronous prefix
Suspended(owner, r) ==
    IF r.kind \in {"write", "batch"} THEN {Ctx(owner, r.acts, r.pkts)} ELSE {}

\* the Delay task the synchronous prefix spawned, if any
Spawned(r) ==
    IF r.kind = "delay"
    THEN {[deadline |-> now + r.d, acts |-> r.acts, pkts |-> r.pkts]}
    ELSE {}

InitBatch ==
    /\ now = 0
    /\ nextFrame = 1
    /\ running = {}
    /\ delayed = {}
    /\ batches = {}
    /\ timeouts = {}
    /\ tmo = NoTimeout
    /\ routerOut = <<>>
    /\ nextBatch = 1
    /\ tailRuns = <<>>
    /\ ended = {}
    /\ blocked = {}

(***************************************************************************)
(* BatchManager::queue_or_release for the Batch step at the head of acts,  *)
(* atomic under the batch-map write lock; on Release the executor goes on  *)
(* with the stored tail and the released packets up to its next            *)
(* suspension point.  run0 and del0 are the other invocations and tasks.   *)
(***************************************************************************)
\* mutant: every call spawns a timeout task for the batch it adds to
SpawnTimeoutEachCall(created, a, id) ==
    {[key |-> a.key, deadline |-> now + a.timeout, spawnedFor |-> id]}

\* mutant: no timeout task is spawned
SpawnTimeoutNever(created, a, id) == {}

\* the tokio::spawn inside the or_insert_with closure: the task sleeps
\* for the timeout of the call that creates the batch
SpawnTimeout(created, a, id) ==
    IF created
    THEN {[key |-> a.key, deadline |-> now + a.timeout, spawnedFor |-> id]}
    ELSE {}

QueueOrRelease(owner, acts, pkts, run0, del0) ==
    LET a == Head(acts)
        packet == BatchPacket(pkts)
        created == ~ContainsKey(batches, a.key)
        entries == OrInsertWith(batches, a.key,
                       BatchStateNew(a.key, nextBatch, a.count,
                                     a.forward_on_timeout, Tail(acts), acts))
        old == Get(entries, a.key)
        batch == [AddPacket(old, packet.sys, packet)
                      EXCEPT !.log = Append(old.log, packet)]
        updated == (entries \ {old}) \cup {batch}
        r == ExecuteActionsImpl(Release(batch).remaining_actions,
                                Release(batch).packets)
    IN  /\ ~tmo.active
        /\ nextBatch' = IF created THEN nextBatch + 1 ELSE nextBatch
        /\ timeouts' = timeouts \cup SpawnTimeout(created, a, batch.id)
        /\ IF IsReady(batch)
           THEN /\ batches' = Remove(updated, a.key)
                /\ running' = run0 \cup Suspended(owner, r)
                /\ delayed' = del0 \cup Spawned(r)
                /\ ended' = ended \cup {[batch |-> batch.id, by |-> "threshold",
                                         task |-> 0, state |-> batch,
                                         released |-> Release(batch).packets]}
                /\ tailRuns' = IF created THEN Append(tailRuns, 1)
                               ELSE [tailRuns EXCEPT ![batch.id] = @ + 1]
           ELSE /\ batches' = updated
                /\ running' = run0
                /\ delayed' = del0
                /\ tailRuns' = IF created THEN Append(tailRuns, 0) ELSE tailRuns
                /\ UNCHANGED ended
        /\ UNCHANGED <<tmo, routerOut>>

\* history: the frames with which a walk down acts arrives at a Block step
\* before anything is awaited
RECURSIVE AtBlock(_, _)
AtBlock(acts, pkts) ==
    IF acts = <<>> THEN {}
    ELSE CASE Head(acts).t \in {"Forward", "Modify"} -> AtBlock(Tail(acts), pkts)
           [] Head(acts).t = "Block" -> {pkts[i].id : i \in 1..Len(pkts)}
           [] OTHER -> {}

(***************************************************************************)
(* One step of an executor invocation on (acts, pkts): its synchronous     *)
(* prefix and then the first thing it awaits, which is either the router   *)
(* write lock (one frame is written) or the batch-map lock                 *)
(* (queue_or_release).  Steps before the first lock touch no shared state, *)
(* so they are taken together with it.                                     *)
(***************************************************************************)
Step(owner, acts, pkts, run0, del0) ==
    LET r == ExecuteActionsImpl(acts, pkts)
    IN
    /\  CASE r.kind = "write" ->
                 /\ routerOut' = Append(routerOut, Head(r.pkts))
                 /\ running' = run0 \cup
                        Suspended(owner, ExecuteActionsImpl(<<>>, Tail(r.pkts)))
                 /\ delayed' = del0
                 /\ UNCHANGED <<batches, timeouts, tmo, nextBatch, tailRuns, ended>>
          [] r.kind = "batch" ->
                 IF r.pkts = <<>>
                 THEN \* packets.into_iter().next().unwrap() panics: the task
                      \* is dead at the Batch step and stays there
                      /\ running' = run0 \cup {Ctx(owner, r.acts, r.pkts)}
                      /\ delayed' = del0
                      /\ UNCHANGED <<batches, timeouts, tmo, routerOut, nextBatch,
                                     tailRuns, ended>>
                 ELSE QueueOrRelease(owner, r.acts, r.pkts, run0, del0)
          [] OTHER ->
                 /\ running' = run0 \cup Suspended(owner, r)
                 /\ delayed' = del0 \cup Spawned(r)
                 /\ UNCHANGED <<batches, timeouts, tmo, routerOut, nextBatch,
                                tailRuns, ended>>
    /\ blocked' = blocked \cup AtBlock(acts, pkts)
                    \cup UNION {AtBlock(e.state.remaining_actions, e.released) :
                                    e \in ended' \ ended}

(***************************************************************************)
(* forward_gcs_to_router: the pump of client c reads one frame, gets the   *)
(* rule engine's action list and awaits the executor on it.  A pump has no *)
(* state of its own while it waits for a frame, so idle pumps are          *)
(* interchangeable and the frame is read by the first idle one.            *)
(***************************************************************************)
ReadFrame(c, sys, acts) ==
    /\ nextFrame <= MaxFrames
    /\ Idle(c)
    /\ \A c2 \in Clients : Idle(c2) => c <= c2
    /\ nextFrame' = nextFrame + 1
    /\ Step(c, acts, <<Frame(nextFrame, sys)>>, running, delayed)
    /\ UNCHANGED <<now, ruleVars, proxyVars, sweepVars, ioVars>>

\* a suspended invocation goes on: the next frame of the write loop, or
\* the Batch step once the batch-map lock is free
Continue(e) ==
    /\ Step(e.owner, e.acts, e.pkts, running \ {e}, delayed)
    /\ UNCHANGED <<now, nextFrame, ruleVars, proxyVars, sweepVars, ioVars>>

\* the Delay task wakes up, not before its deadline, and runs the executor
WakeDelay(t) ==
    /\ now >= t.deadline
    /\ Step(0, t.acts, t.pkts, running, delayed \ {t})
    /\ UNCHANGED <<now, nextFrame, ruleVars, proxyVars, sweepVars, ioVars>>

(***************************************************************************)
(* BatchManager::handle_timeout: after the sleep the task takes the map    *)
(* lock, removes whatever entry the key holds and, when the entry says so, *)
(* sends its packets to the destination one by one, the lock still held.   *)
(***************************************************************************)
HandleTimeout(t) ==
    /\ now >= t.deadline
    /\ ~tmo.active
    /\ timeouts' = timeouts \ {t}
    /\ IF ContainsKey(batches, t.key)
       THEN LET b == Get(batches, t.key) IN
            /\ batches' = Remove(batches, t.key)
            /\ ended' = ended \cup {[batch |-> b.id, by |-> "timeout",
                                     task |-> t.spawnedFor, state |-> b,
                                     released |-> TimeoutPackets(b)]}
            /\ tmo' = IF TimeoutPackets(b) # <<>>
                      THEN [active |-> TRUE, pkts |-> TimeoutPackets(b)]
                      ELSE NoTimeout
       ELSE UNCHANGED <<batches, ended, tmo>>
    /\ UNCHANGED <<now, nextFrame, running, delayed, routerOut, nextBatch, tailRuns,
                   blocked, ruleVars, proxyVars, sweepVars, ioVars>>

\* socket.send(&packet) of the loop over the released packets
TimeoutSend ==
    /\ tmo.active
    /\ routerOut' = Append(routerOut, Head(tmo.pkts))
    /\ tmo' = IF Len(tmo.pkts) = 1
              THEN NoTimeout
              ELSE [active |-> TRUE, pkts |-> Tail(tmo.pkts)]
    /\ UNCHANGED <<now, nextFrame, running, delayed, batches, timeouts, nextBatch,
                   tailRuns, ended, blocked, ruleVars, proxyVars, sweepVars, ioVars>>

Tick ==
    /\ now < MaxTime
    /\ now' = now + 1
    /\ UNCHANGED <<batchRest, ruleVars, proxyVars, sweepVars, ioVars>>

(***************************************************************************)
(* Rules (config.rs, struct CommandRule; rules.rs for the fields name,     *)
(* triggers and proxy.rs for enabled_by_default).  An Option is a sequence *)
(* of length 0 or 1.                                                       *)
(***************************************************************************)
NoRule ==
    [name |-> "", message_type |-> "", direction |-> "gcs_to_router",
     system_id |-> <<>>, priority |-> 0, enabled_by_default |-> TRUE,
     triggers |-> <<>>, plugins |-> <<>>, auto_ack |-> FALSE, ack |-> <<>>,
     actions |-> <<>>, delay_seconds |-> <<>>, modifier |-> <<>>,
     batch_count |-> <<>>, batch_timeout_seconds |-> <<>>,
     batch_key |-> "default", batch_timeout_forward |-> TRUE]

TriggerConfig(activate, deactivate, duration) ==
    [on_match |-> TRUE, activate_rules |-> activate,
     deactivate_rules |-> deactivate, duration_seconds |-> duration]

\* the rules of the configurations explored; file order and priorities
\* are chosen in InitRules
RuleA ==
    [NoRule EXCEPT !.name = "a", !.message_type = "COMMAND_LONG",
                   !.triggers = <<TriggerConfig(<<"b">>, <<"c">>, <<1>>)>>,
                   !.plugins = <<"log">>, !.auto_ack = TRUE,
                   !.ack = <<"COMMAND_ACK">>, !.actions = <<"block">>]

RuleB ==
    [NoRule EXCEPT !.name = "b", !.message_type = "COMMAND_LONG",
                   !.direction = "both", !.system_id = <<1>>,
                   !.enabled_by_default = FALSE,
                   !.triggers = <<TriggerConfig(<<"c">>, <<"a">>, <<1>>)>>,
                   !.plugins = <<"audit">>,
                   !.actions = <<"delay", "forward">>, !.delay_seconds = <<1>>]

RuleC ==
    [NoRule EXCEPT !.name = "c", !.message_type = "COMMAND_LONG",
                   !.direction = "both",
                   !.triggers = <<TriggerConfig(<<"a">>, <<>>, <<1>>)>>,
                   !.actions = <<"modify">>, !.modifier = <<"disarm">>]

\* the orders in which the configuration files list them
FileOrders == {<<RuleA, RuleB, RuleC>>, <<RuleC, RuleB, RuleA>>}

Priorities == {0, 10}

Pumps == {"gcs_to_router", "router_to_gcs"}

MessageTypes == {"COMMAND_LONG", "HEARTBEAT"}

Packet(msg, sys) == [msg |-> msg, sys |-> sys]

(***************************************************************************)
(* Config::load: config.rules.sort_by(|a, b| b.priority.cmp(&a.priority)), *)
(* a stable sort, highest priority first.                                  *)
(***************************************************************************)
\* mutant: the element goes in front of the elements of its own priority
\* (an unstable sort)
RECURSIVE InsertBeforeEqual(_, _)
InsertBeforeEqual(sorted, r) ==
    IF sorted = <<>> THEN <<r>>
    ELSE IF Head(sorted).priority > r.priority
         THEN <<Head(sorted)>> \o InsertBeforeEqual(Tail(sorted), r)
         ELSE <<r>> \o sorted

\* r goes behind every element whose priority is at least its own
RECURSIVE InsertByPriority(_, _)
InsertByPriority(sorted, r) ==
    IF sorted = <<>> THEN <<r>>
    ELSE IF Head(sorted).priority >= r.priority
         THEN <<Head(sorted)>> \o InsertByPriority(Tail(sorted), r)
         ELSE <<r>> \o sorted

RECURSIVE SortByPriority(_)
SortByPriority(rs) ==
    IF rs = <<>> THEN <<>>
    ELSE InsertByPriority(SortByPriority(SubSeq(rs, 1, Len(rs) - 1)), rs[Len(rs)])

(***************************************************************************)
(* RuleStateManager (rule_state.rs).                                       *)
(***************************************************************************)
RuleActivation(enabled, expiration) ==
    [enabled |-> enabled, expiration |-> expiration, context |-> <<>>]

\* RuleStateManager::new on the initial_states of ProxyServer::new
InitialStates(rs) ==
    [n \in {rs[i].name : i \in 1..Len(rs)} |->
        LET r == CHOOSE r \in {rs[i] : i \in 1..Len(rs)} : r.name = n
        IN  RuleActivation(r.enabled_by_default, <<>>)]

\* HashMap::insert
Insert(acts, name, a) ==
    [n \in DOMAIN acts \cup {name} |-> IF n = name THEN a ELSE acts[n]]

\* mutant: every rule counts as enabled
IsRuleEnabledAlways(acts, rule_name) == TRUE

\* mutant: a name without an entry counts as disabled
IsRuleEnabledListedOnly(acts, rule_name) ==
    IF rule_name \in DOMAIN acts THEN acts[rule_name].enabled ELSE FALSE

IsRuleEnabled(acts, rule_name) ==
    IF rule_name \in DOMAIN acts THEN acts[rule_name].enabled ELSE TRUE

\* mutant: an activation of a rule that still carries an expiration keeps
\* the later of the two deadlines
ActivateRuleKeepLater(acts, rule_name, duration, context) ==
    LET old == IF rule_name \in DOMAIN acts THEN acts[rule_name].expiration ELSE <<>>
        expiration == IF old # <<>> /\ old[1] > now + duration THEN old[1]
                      ELSE now + duration
    IN  Insert(acts, rule_name,
               [RuleActivation(TRUE, <<expiration>>) EXCEPT !.context = context])

ActivateRule(acts, rule_name, duration, context) ==
    Insert(acts, rule_name,
           [RuleActivation(TRUE, <<now + duration>>) EXCEPT !.context = context])

DeactivateRule(acts, rule_name) ==
    Insert(acts, rule_name, RuleActivation(FALSE, <<>>))

\* mutant: every entry that carries an expiration is disabled, due or not
CleanupExpiredAll(acts) ==
    [n \in DOMAIN acts |->
        IF acts[n].expiration # <<>> THEN RuleActivation(FALSE, <<>>) ELSE acts[n]]

\* mutant: an entry is disabled only once now is past its expiration
CleanupExpiredLate(acts) ==
    [n \in DOMAIN acts |->
        IF acts[n].expiration # <<>> /\ now > acts[n].expiration[1]
        THEN RuleActivation(FALSE, <<>>)
        ELSE acts[n]]

CleanupExpired(acts) ==
    [n \in DOMAIN acts |->
        IF acts[n].expiration # <<>> /\ now >= acts[n].expiration[1]
        THEN RuleActivation(FALSE, <<>>)
        ELSE acts[n]]

(***************************************************************************)
(* RuleEngine (rules.rs).                                                  *)
(***************************************************************************)
MatchesConditions(pkt, rule) ==
    rule.system_id # <<>> => pkt.sys = rule.system_id[1]

\* mutant: the direction filter is left out
MatchesRuleAnyDirection(pkt, rule, direction) ==
    IF rule.message_type # pkt.msg THEN FALSE
    ELSE MatchesConditions(pkt, rule)

MatchesRule(pkt, rule, direction) ==
    IF rule.direction # "both" /\ rule.direction # direction THEN FALSE
    ELSE IF rule.message_type # pkt.msg THEN FALSE
    ELSE MatchesConditions(pkt, rule)

\* execute_triggers: the state-manager calls it makes, in order; by is
\* the rule the triggers belong to.  The call of rules.rs hands over no
\* context: the activation is stored with an empty one.
\* mutant: the loop over deactivate_rules runs before the activations
ExecuteTriggersDeactivateFirst(triggers, by) ==
    [i \in 1..Len(triggers.deactivate_rules) |->
        [op |-> "deactivate", rule |-> triggers.deactivate_rules[i],
         duration |-> 0, by |-> by]]
    \o (IF triggers.duration_seconds # <<>>
        THEN [i \in 1..Len(triggers.activate_rules) |->
                 [op |-> "activate", rule |-> triggers.activate_rules[i],
                  duration |-> triggers.duration_seconds[1], by |-> by]]
        ELSE <<>>)

\* mutant: the loop over deactivate_rules is left out
ExecuteTriggersActivateOnly(triggers, by) ==
    IF triggers.duration_seconds # <<>>
    THEN [i \in 1..Len(triggers.activate_rules) |->
             [op |-> "activate", rule |-> triggers.activate_rules[i],
              duration |-> triggers.duration_seconds[1], by |-> by]]
    ELSE <<>>

ExecuteTriggers(triggers, by) ==
    (IF triggers.duration_seconds # <<>>
     THEN [i \in 1..Len(triggers.activate_rules) |->
              [op |-> "activate", rule |-> triggers.activate_rules[i],
               duration |-> triggers.duration_seconds[1], by |-> by]]
     ELSE <<>>)
    \o [i \in 1..Len(triggers.deactivate_rules) |->
           [op |-> "deactivate", rule |-> triggers.deactivate_rules[i],
            duration |-> 0, by |-> by]]

\* the triggers block of process_message_with_direction
OnMatchTriggers(rule) ==
    IF rule.triggers # <<>> /\ rule.triggers[1].on_match
    THEN ExecuteTriggers(rule.triggers[1], rule.name)
    ELSE <<>>

\* execute_plugins: the plugin calls made for the rule
ExecutePlugins(rule) ==
    [i \in 1..Len(rule.plugins) |-> [plugin |-> rule.plugins[i], by |-> rule.name]]

\* build_ack_info on a message that carries the configured source fields
BuildAckInfo(rule) ==
    IF rule.ack = <<>> THEN <<>>
    ELSE <<[message_type |-> rule.ack[1], by |-> rule.name]>>

GetActions(rule) == rule.actions

UnwrapOr(opt, default) == IF opt = <<>> THEN default ELSE opt[1]

\* mutant: a modify action whose modifier fails or is missing blocks
ExecuteActionFailureBlocks(rule, modOk) ==
    [ack_info |-> IF rule.auto_ack THEN BuildAckInfo(rule) ELSE <<>>,
     actions |->
        [i \in 1..Len(GetActions(rule)) |->
            LET action_name == GetActions(rule)[i]
            IN  CASE action_name = "delay" -> Delay(UnwrapOr(rule.delay_seconds, 0))
                  [] action_name = "batch" ->
                         Batch(UnwrapOr(rule.batch_count, 1),
                               UnwrapOr(rule.batch_timeout_seconds, 30),
                               rule.batch_key, rule.batch_timeout_forward)
                  [] action_name = "block" -> Block
                  [] action_name = "forward" -> Forward
                  [] action_name = "modify" ->
                         IF rule.modifier # <<>> /\ modOk
                         THEN Modify(rule.modifier[1])
                         ELSE Block
                  [] OTHER -> Forward]]

\* execute_action; modOk tells whether the Lua modifier ran without error
ExecuteAction(rule, modOk) ==
    [ack_info |-> IF rule.auto_ack THEN BuildAckInfo(rule) ELSE <<>>,
     actions |->
        [i \in 1..Len(GetActions(rule)) |->
            LET action_name == GetActions(rule)[i]
            IN  CASE action_name = "delay" -> Delay(UnwrapOr(rule.delay_seconds, 0))
                  [] action_name = "batch" ->
                         Batch(UnwrapOr(rule.batch_count, 1),
                               UnwrapOr(rule.batch_timeout_seconds, 30),
                               rule.batch_key, rule.batch_timeout_forward)
                  [] action_name = "block" -> Block
                  [] action_name = "forward" -> Forward
                  [] action_name = "modify" ->
                         IF rule.modifier # <<>> /\ modOk
                         THEN Modify(rule.modifier[1])
                         ELSE Forward
                  [] OTHER -> Forward]]

(***************************************************************************)
(* One process_message_with_direction call per pump.  pc is "idle" before  *)
(* the first packet, "scan" inside the loop over the rules at index i,     *)
(* "triggers" while the state-manager calls of the matched rule are made,  *)
(* "done" once the ProcessResult is returned.  checks, source, triggered,  *)
(* plugins_run and modifier_ok are history: the activation each examined   *)
(* rule had when is_rule_enabled read it, the side effects made, each with *)
(* the rule it was made for, and whether execute_modifier, if it was       *)
(* called, returned Ok.                                                    *)
(***************************************************************************)
NoPacket == Packet("", 0)

IdlePump ==
    [pc |-> "idle", pkt |-> NoPacket, i |-> 0, checks |-> <<>>, pending |-> <<>>,
     source |-> "", triggered |-> <<>>, plugins_run |-> <<>>,
     ack_info |-> <<>>, actions |-> <<>>, modifier_ok |-> <<>>]

Entered(pkt) == [IdlePump EXCEPT !.pc = "scan", !.pkt = pkt, !.i = 1]

\* what is_rule_enabled had to read
Read(acts, rule_name) ==
    [name |-> rule_name,
     enabled |-> IF rule_name \in DOMAIN acts THEN <<acts[rule_name].enabled>>
                 ELSE <<>>]

\* execute_plugins and execute_action of the matched rule, and the return
Return(s, rule, modOk) ==
    [s EXCEPT !.pc = "done", !.pending = <<>>,
              !.plugins_run = ExecutePlugins(rule),
              !.ack_info = ExecuteAction(rule, modOk).ack_info,
              !.actions = ExecuteAction(rule, modOk).actions,
              !.modifier_ok = IF rule.modifier # <<>>
                                 /\ \E i \in DOMAIN GetActions(rule) :
                                        GetActions(rule)[i] = "modify"
                              THEN <<modOk>> ELSE <<>>]

\* no rule matched: forward by default
\* mutant: a packet no rule claims is blocked
ReturnDefaultBlock(s) == [s EXCEPT !.pc = "done", !.actions = <<Block>>]

ReturnDefault(s) == [s EXCEPT !.pc = "done", !.actions = <<Forward>>]

\* one turn of the loop, on the pump state s of direction p
Examine(p, s, modOk) ==
    LET rule == rules[s.i]
        s1 == [s EXCEPT !.checks = Append(@, Read(activations, rule.name))]
    IN  IF s.i > Len(rules) THEN ReturnDefault(s)
        ELSE IF IsRuleEnabled(activations, rule.name) /\ MatchesRule(s.pkt, rule, p)
        THEN LET s2 == [s1 EXCEPT !.source = rule.name,
                                  !.pending = OnMatchTriggers(rule)]
             IN  IF s2.pending = <<>> THEN Return(s2, rule, modOk)
                 ELSE [s2 EXCEPT !.pc = "triggers"]
        ELSE IF s.i = Len(rules) THEN ReturnDefault(s1)
        ELSE [s1 EXCEPT !.i = s.i + 1]

InitRules ==
    /\ \E order \in FileOrders, pa, pb, pc \in Priorities :
          fileRules = << [order[1] EXCEPT !.priority = pa],
                         [order[2] EXCEPT !.priority = pb],
                         [order[3] EXCEPT !.priority = pc] >>
    /\ rules = SortByPriority(fileRules)
    /\ activations = InitialStates(rules)
    /\ pump = [p \in Pumps |-> IdlePump]

\* a configuration without rules
NoRules ==
    /\ fileRules = <<>>
    /\ rules = <<>>
    /\ activations = InitialStates(rules)
    /\ pump = [p \in Pumps |-> IdlePump]

\* the pump of direction p parses a packet and enters the rule engine,
\* which examines the first rule
Receive(p, pkt, modOk) ==
    /\ nextFrame <= MaxPackets
    /\ pump[p].pc \in {"idle", "done"}
    /\ nextFrame' = nextFrame + 1
    /\ pump' = [pump EXCEPT ![p] = Examine(p, Entered(pkt), modOk)]
    /\ UNCHANGED <<fileRules, rules, activations, now, running, delayed, batches,
                   timeouts, tmo, routerOut, nextBatch, tailRuns, ended, blocked,
                   proxyVars, sweepVars, ioVars>>

\* the next rule is examined
Check(p, modOk) ==
    /\ pump[p].pc = "scan"
    /\ pump' = [pump EXCEPT ![p] = Examine(p, pump[p], modOk)]
    /\ UNCHANGED <<fileRules, rules, activations, batchVars, proxyVars, sweepVars, ioVars>>

\* the next activate_rule or deactivate_rule call of execute_triggers;
\* after the last one the plugins run and the result is returned
TriggerStep(p, modOk) ==
    /\ pump[p].pc = "triggers"
    /\ LET s == pump[p]
           t == Head(s.pending)
           s1 == [s EXCEPT !.pending = Tail(@), !.triggered = Append(@, t)]
           rule == rules[s.i]
       IN  /\ activations' = IF t.op = "activate"
                             THEN ActivateRule(activations, t.rule, t.duration, <<>>)
                             ELSE DeactivateRule(activations, t.rule)
           /\ pump' = [pump EXCEPT ![p] = IF s1.pending = <<>>
                                          THEN Return(s1, rule, modOk)
                                          ELSE s1]
    /\ UNCHANGED <<fileRules, rules, batchVars, proxyVars, sweepVars, ioVars>>

\* the cleanup task of spawn_cleanup_task, at any of its ticks
Sweep ==
    /\ activations' = CleanupExpired(activations)
    /\ UNCHANGED <<fileRules, rules, pump, batchVars, proxyVars, sweepVars, ioVars>>

\* no read_mavlink_packet call is in progress
NoRead == [stream |-> <<>>, pos |-> 0, pc |-> "idle", packet |-> <<>>, result |-> <<>>]

\* ProxyState::new: no client is registered, nothing is in flight
InitRegistry ==
    /\ clients = {}
    /\ nextClient = 1
    /\ gcsOut = [c \in Clients |-> <<>>]
    /\ bcast = {}
    /\ bdelayed = {}
    /\ reads = <<>>
    /\ nextSweep = 0
    /\ last = <<>>

\* no task is at a lock or at a socket
NoTasks == tasks = <<>> /\ locks = <<>> /\ wire = <<>>

InitProxyState == InitRegistry /\ reader = NoRead /\ NoTasks

Init == InitBatch /\ NoRules /\ InitProxyState

(***************************************************************************)
(* read_mavlink_packet (proxy.rs): one frame is cut out of a byte stream   *)
(* with five read_exact calls.  A stream is the sequence of bytes the      *)
(* socket will deliver; its end stands for EOF or an I/O error, both of    *)
(* which make read_exact return Err.                                       *)
(***************************************************************************)
MaxPayload == 2      \* largest value of the length byte in the streams
MaxJunk == 2         \* most bytes in front of the start marker
MAGIC == 253         \* 0xFD, the MAVLink v2 start marker
HeaderBuf == 2       \* header_buf: payload length, incompat flags
RestHeader == 7      \* rest_header
Checksum == 2        \* checksum

\* the bytes that follow <<MAGIC, len>> in a stream: flags, rest of the
\* header, payload, checksum and one byte more, each telling its position,
\* with one further 0xFD at position at (none when at = 0)
Rest(len, at) ==
    [k \in 1..(HeaderBuf - 1 + RestHeader + len + Checksum + 1) |->
        IF k = at THEN MAGIC ELSE 100 + k]

\* the streams a call is given: junk bytes, a frame, cut off after n bytes
Streams ==
    UNION { LET whole == [k \in 1..j |-> k] \o <<MAGIC, len>> \o Rest(len, at)
            IN { SubSeq(whole, 1, n) : n \in 0..Len(whole) } :
            <<j, len, at>> \in (0..MaxJunk) \X (0..MaxPayload)
                               \X (0..(RestHeader + MaxPayload + Checksum + 2)) }

\* AsyncReadExt::read_exact: n bytes or, when the stream ends first, Err
ReadExact(r, n) ==
    IF r.pos + n <= Len(r.stream)
    THEN [ok |-> TRUE, buf |-> SubSeq(r.stream, r.pos + 1, r.pos + n),
          pos |-> r.pos + n]
    ELSE [ok |-> FALSE, buf |-> <<>>, pos |-> Len(r.stream)]

\* `?` on a read_exact that failed: the call returns Err, the buffers are
\* dropped with the call
ReadErrPartial(r, got) ==
    [r EXCEPT !.pos = got.pos, !.pc = "err", !.result = <<r.packet>>]
ReadErr(r, got) ==
    [r EXCEPT !.pos = got.pos, !.pc = "err", !.packet = <<>>, !.result = <<>>]

\* one read_exact of n bytes into the next buffer, then on to pc `next`
ReadInto(n, next) ==
    LET got == ReadExact(reader, n) IN
    reader' = IF got.ok
              THEN [reader EXCEPT !.pos = got.pos, !.pc = next,
                                  !.packet = @ \o got.buf]
              ELSE ReadErr(reader, got)

\* the loop: one byte at a time until it is the start marker
ScanMagic ==
    /\ reader.pc = "magic"
    /\ LET got == ReadExact(reader, 1) IN
       reader' = IF ~got.ok THEN ReadErr(reader, got)
                 ELSE IF got.buf[1] = MAGIC
                      THEN [reader EXCEPT !.pos = got.pos, !.pc = "header_buf",
                                          !.packet = got.buf]
                      ELSE [reader EXCEPT !.pos = got.pos]
    /\ UNCHANGED <<batchVars, ruleVars, proxyVars, sweepVars, tasks, locks, wire>>

ReadHeaderBuf ==
    /\ reader.pc = "header_buf"
    /\ ReadInto(HeaderBuf, "rest_header")
    /\ UNCHANGED <<batchVars, ruleVars, proxyVars, sweepVars, tasks, locks, wire>>

ReadRestHeader ==
    /\ reader.pc = "rest_header"
    /\ ReadInto(RestHeader, "payload")
    /\ UNCHANGED <<batchVars, ruleVars, proxyVars, sweepVars, tasks, locks, wire>>

\* payload_len = header_buf[0], the byte behind the marker
ReadPayload ==
    /\ reader.pc = "payload"
    /\ ReadInto(reader.packet[2], "checksum")
    /\ UNCHANGED <<batchVars, ruleVars, proxyVars, sweepVars, tasks, locks, wire>>

\* the last read; the five buffers together are the packet returned
ReadChecksum ==
    /\ reader.pc = "checksum"
    /\ LET got == ReadExact(reader, Checksum) IN
       reader' = IF got.ok
                 THEN [reader EXCEPT !.pos = got.pos, !.pc = "ok",
                                     !.packet = @ \o got.buf,
                                     !.result = <<reader.packet \o got.buf>>]
                 ELSE ReadErr(reader, got)
    /\ UNCHANGED <<batchVars, ruleVars, proxyVars, sweepVars, tasks, locks, wire>>

InitReader ==
    /\ InitBatch /\ NoRules /\ InitRegistry /\ NoTasks
    /\ reader \in { [NoRead EXCEPT !.stream = st, !.pc = "magic"] : st \in Streams }

NextReader ==
    ScanMagic \/ ReadHeaderBuf \/ ReadRestHeader \/ ReadPayload \/ ReadChecksum

SpecReader == InitReader /\ [][NextReader]_vars

(***************************************************************************)
(* Locks and sockets.  A task is the sequence of lock and socket           *)
(* operations its code performs: "acq" awaits RwLock::read or ::write,     *)
(* "rel" drops the guard, "write" is one write of write_all, which hands   *)
(* a frame to the socket in two chunks, "send" is UdpSocket::send, one     *)
(* datagram.  tokio's RwLock is fair: waiters are served in the order in   *)
(* which they asked, a reader does not overtake a queued writer.           *)
(***************************************************************************)
Acq(l, mode) == [op |-> "acq", lock |-> l, mode |-> mode, sink |-> <<>>, frame |-> 0, chunk |-> 0]
Rel(l) == [op |-> "rel", lock |-> l, mode |-> "", sink |-> <<>>, frame |-> 0, chunk |-> 0]
Wr(sink, f, k) == [op |-> "write", lock |-> <<>>, mode |-> "", sink |-> sink, frame |-> f, chunk |-> k]

ClientLock(c) == <<"client", c>>
ClientSink(c) == <<"gcs", c>>
BatchesLock == <<"batches", 0>>
RegistryLock == <<"registry", 0>>
RouterLock == <<"router", 0>>
RouterSink == <<"router", 0>>
UdpSink == <<"udp", 0>>
LockNames == {BatchesLock, RegistryLock, RouterLock} \cup {ClientLock(c) : c \in Clients}
Sinks == {RouterSink, UdpSink} \cup {ClientSink(c) : c \in Clients}

\* stream.write_all(packet) on a TCP write half
WriteAll(sink, f) == <<Wr(sink, f, 1), Wr(sink, f, 2)>>

\* execute_actions_impl with no action left: the frame goes to the router
\* under the write lock of the router write half
RouterWrite(f) == <<Acq(RouterLock, "write")>> \o WriteAll(RouterSink, f) \o <<Rel(RouterLock)>>

\* mutant: the ACK is written with the client's lock taken first and the
\* registry looked up under it
AckWriteLookupUnderLock(c, f) ==
    <<Acq(ClientLock(c), "write"), Acq(RegistryLock, "read"), Rel(RegistryLock)>>
    \o WriteAll(ClientSink(c), f) \o <<Rel(ClientLock(c))>>

\* the ACK of a client pump: get_gcs_client, then the client's write lock
AckWrite(c, f) ==
    <<Acq(RegistryLock, "read"), Rel(RegistryLock), Acq(ClientLock(c), "write")>>
    \o WriteAll(ClientSink(c), f) \o <<Rel(ClientLock(c))>>

\* queue_or_release: the map lock is held from entry to return
QueueOrReleaseLock == <<Acq(BatchesLock, "write"), Rel(BatchesLock)>>

\* broadcast_to_all_gcs: the registry is read-locked throughout, the
\* clients are written to one after the other
RECURSIVE BroadcastLoop(_, _)
BroadcastLoop(cs, f) ==
    IF cs = {} THEN <<>>
    ELSE LET c == CHOOSE c \in cs : \A d \in cs : c <= d
         IN  <<Acq(ClientLock(c), "write")>> \o WriteAll(ClientSink(c), f)
             \o <<Rel(ClientLock(c))>> \o BroadcastLoop(cs \ {c}, f)

BroadcastToAllGcs(f) ==
    <<Acq(RegistryLock, "read")>> \o BroadcastLoop(Clients, f) \o <<Rel(RegistryLock)>>

\* handle_timeout: the map lock is held while the frames are sent
HandleTimeoutLock(f) ==
    <<Acq(BatchesLock, "write"),
      [op |-> "send", lock |-> <<>>, mode |-> "", sink |-> UdpSink, frame |-> f, chunk |-> 0],
      Rel(BatchesLock)>>

\* add_gcs_client / remove_gcs_client
RegistryUpdate == <<Acq(RegistryLock, "write"), Rel(RegistryLock)>>

\* the tasks of a run.  Either the router's write half is contended: a
\* client pump that acknowledges and forwards, a client pump whose frame
\* completes a batch of two that is forwarded, a timeout task and a Delay
\* task; or the registry and the clients are: the acknowledging pump, the
\* router pump that acknowledges and broadcasts, and the accept loop
\* registering a client
Scenarios ==
    { << AckWrite(1, 1) \o RouterWrite(2),
         QueueOrReleaseLock \o RouterWrite(3) \o RouterWrite(4),
         HandleTimeoutLock(7),
         RouterWrite(8) >>,
      << AckWrite(1, 1) \o RouterWrite(2),
         RouterWrite(5) \o BroadcastToAllGcs(6),
         RegistryUpdate >> }

MaxTasks == 4        \* the most tasks in a scenario
TaskIds == DOMAIN tasks

FreeLock == [holders |-> {}, queue |-> <<>>]

InitLocks ==
    /\ InitBatch /\ NoRules /\ InitRegistry /\ reader = NoRead
    /\ tasks \in Scenarios
    /\ locks = [l \in LockNames |-> FreeLock]
    /\ wire = [s \in Sinks |-> <<>>]

Waiting(t) ==
    /\ t \in DOMAIN tasks
    /\ tasks[t] # <<>>
    /\ Head(tasks[t]).op = "acq"
    /\ \E i \in 1..Len(locks[Head(tasks[t]).lock].queue) :
           locks[Head(tasks[t]).lock].queue[i].task = t

\* the task reaches a .read().await or .write().await and joins the queue
Request(t) ==
    /\ tasks[t] # <<>>
    /\ Head(tasks[t]).op = "acq"
    /\ ~Waiting(t)
    /\ locks' = [locks EXCEPT ![Head(tasks[t]).lock].queue =
                    Append(@, [task |-> t, mode |-> Head(tasks[t]).mode])]
    /\ UNCHANGED <<batchVars, ruleVars, proxyVars, sweepVars, reader, tasks, wire>>

\* mutant: every waiter is let in, whoever holds the lock
CompatibleAlways(holders, mode) == TRUE

\* a reader is let in unless a writer holds the lock, a writer only when
\* nobody holds it
Compatible(holders, mode) ==
    IF mode = "read" THEN \A h \in holders : h.mode = "read" ELSE holders = {}

\* the first waiter of lock l gets its guard
Grant(l) ==
    /\ locks[l].queue # <<>>
    /\ Compatible(locks[l].holders, Head(locks[l].queue).mode)
    /\ locks' = [locks EXCEPT ![l] = [holders |-> @.holders \cup {Head(@.queue)},
                                      queue |-> Tail(@.queue)]]
    /\ tasks' = [tasks EXCEPT ![Head(locks[l].queue).task] = Tail(@)]
    /\ UNCHANGED <<batchVars, ruleVars, proxyVars, sweepVars, reader, wire>>

\* one chunk, or one datagram, is handed to the socket
WriteChunk(t) ==
    /\ tasks[t] # <<>>
    /\ Head(tasks[t]).op \in {"write", "send"}
    /\ wire' = [wire EXCEPT ![Head(tasks[t]).sink] =
                   Append(@, [frame |-> Head(tasks[t]).frame,
                              chunk |-> Head(tasks[t]).chunk, by |-> t])]
    /\ tasks' = [tasks EXCEPT ![t] = Tail(@)]
    /\ UNCHANGED <<batchVars, ruleVars, proxyVars, sweepVars, reader, locks>>

\* the guard goes out of scope
DropGuard(t) ==
    /\ tasks[t] # <<>>
    /\ Head(tasks[t]).op = "rel"
    /\ locks' = [locks EXCEPT ![Head(tasks[t]).lock].holders =
                    {h \in @ : h.task # t}]
    /\ tasks' = [tasks EXCEPT ![t] = Tail(@)]
    /\ UNCHANGED <<batchVars, ruleVars, proxyVars, sweepVars, reader, wire>>

NextLocks ==
    \/ \E t \in TaskIds : Request(t)
    \/ \E l \in LockNames : Grant(l)
    \/ \E t \in TaskIds : WriteChunk(t)
    \/ \E t \in TaskIds : DropGuard(t)

\* every task that can take a step eventually takes one: the scheduler runs
\* every runnable task and socket writes complete
SpecLocks == InitLocks /\ [][NextLocks]_vars /\ WF_vars(NextLocks)

Next ==
    \/ \E c \in Clients, sys \in SysIds, acts \in RuleActions : ReadFrame(c, sys, acts)
    \/ \E e \in running : Continue(e)
    \/ \E t \in delayed : WakeDelay(t)
    \/ \E t \in timeouts : HandleTimeout(t)
    \/ TimeoutSend
    \/ Tick

Spec == Init /\ [][Next]_vars

(***************************************************************************)
(* The aggregator under two rules that share a batch key with different    *)
(* parameters, each with a condition on the system id.  The rule for       *)
(* system 1 batches under "arm" until two systems have sent and then       *)
(* batches each release under "land"; the rule for the other systems       *)
(* batches under "arm" with a threshold of three, another timeout, the     *)
(* other timeout flag and a Block as tail.                                 *)
(***************************************************************************)
TailActions(sys) ==
    IF sys = 1
    THEN <<Batch(2, 1, "arm", TRUE), Batch(1, 2, "land", FALSE), Forward>>
    ELSE <<Batch(3, 2, "arm", FALSE), Block>>

NextTails ==
    \/ \E c \in Clients, sys \in SysIds : ReadFrame(c, sys, TailActions(sys))
    \/ \E e \in running : Continue(e)
    \/ \E t \in timeouts : HandleTimeout(t)
    \/ TimeoutSend
    \/ Tick

SpecTails == Init /\ [][NextTails]_vars

(***************************************************************************)
(* The call chains that lead to a Batch step: a pump whose list delays     *)
(* before it batches, a batch whose tail batches again under another key,  *)
(* and a Modify step in front of a Batch step.                             *)
(***************************************************************************)
ChainActions(sys) ==
    IF sys = 1
    THEN <<Delay(1), Batch(2, 1, "arm", TRUE), Batch(1, 1, "land", TRUE), Forward>>
    ELSE <<Modify("disarm"), Batch(2, 1, "arm", FALSE)>>

NextChains ==
    \/ \E c \in Clients, sys \in SysIds : ReadFrame(c, sys, ChainActions(sys))
    \/ \E e \in running : Continue(e)
    \/ \E t \in delayed : WakeDelay(t)
    \/ \E t \in timeouts : HandleTimeout(t)
    \/ TimeoutSend
    \/ Tick

SpecChains == Init /\ [][NextChains]_vars

(***************************************************************************)
(* execute_actions_impl called on its own: one invocation on a list of     *)
(* frames, any of which may fail to parse or to encode, and an action list *)
(* that begins with a Modify step, with or without a modified message.     *)
(***************************************************************************)
Bodies == {"orig", "garbled", "unencodable"}

\* the frame lists of length 1 .. MaxFrames, frame i having the identity i
FrameLists ==
    UNION {{[i \in 1..n |-> [id |-> i, sys |-> 1, body |-> b[i]]] :
                b \in [1..n -> Bodies]} : n \in 1..MaxFrames}

ModifyLists ==
    { <<Modify("disarm")>>, <<Modify("disarm"), Forward>>,
      <<Modify("disarm"), Delay(1)>>, <<Modify(""), Forward>> }

InitExecutor ==
    /\ \E acts \in ModifyLists, pkts \in FrameLists :
           /\ running = {Ctx(1, acts, pkts)}
           /\ nextFrame = Len(pkts) + 1
    /\ now = 0
    /\ delayed = {}
    /\ batches = {}
    /\ timeouts = {}
    /\ tmo = NoTimeout
    /\ routerOut = <<>>
    /\ nextBatch = 1
    /\ tailRuns = <<>>
    /\ ended = {}
    /\ blocked = {}
    /\ NoRules
    /\ InitProxyState

NextExecutor ==
    \/ \E e \in running : Continue(e)
    \/ \E t \in delayed : WakeDelay(t)
    \/ Tick

SpecExecutor == InitExecutor /\ [][NextExecutor]_vars

InitRuleEngine == InitBatch /\ InitRules /\ InitProxyState

NextRules ==
    \/ \E p \in Pumps, msg \in MessageTypes, sys \in SysIds, modOk \in BOOLEAN :
           Receive(p, Packet(msg, sys), modOk)
    \/ \E p \in Pumps, modOk \in BOOLEAN : Check(p, modOk)
    \/ \E p \in Pumps, modOk \in BOOLEAN : TriggerStep(p, modOk)
    \/ Sweep
    \/ Tick

SpecRules == InitRuleEngine /\ [][NextRules]_vars

(***************************************************************************)
(* The rule engine under rules with a modify action among other actions:   *)
(* one acknowledged rule that delays, modifies and forwards, one that      *)
(* names no modifier, and one that blocks after the modify.  The modifier  *)
(* script may fail at any call.                                            *)
(***************************************************************************)
RuleEdit ==
    [NoRule EXCEPT !.name = "edit", !.message_type = "COMMAND_LONG",
                   !.direction = "both", !.auto_ack = TRUE,
                   !.ack = <<"COMMAND_ACK">>,
                   !.actions = <<"delay", "modify", "forward">>,
                   !.modifier = <<"disarm">>, !.delay_seconds = <<1>>]

RuleBare ==
    [NoRule EXCEPT !.name = "bare", !.message_type = "HEARTBEAT",
                   !.direction = "both", !.actions = <<"modify", "forward">>]

RuleVeto ==
    [NoRule EXCEPT !.name = "veto", !.message_type = "MISSION_ITEM",
                   !.direction = "both", !.actions = <<"modify", "block">>,
                   !.modifier = <<"disarm">>]

ModifyRules == <<RuleEdit, RuleBare, RuleVeto>>

ModifyMessages == {"COMMAND_LONG", "HEARTBEAT", "MISSION_ITEM"}

InitModify ==
    /\ InitBatch
    /\ InitProxyState
    /\ fileRules = ModifyRules
    /\ rules = SortByPriority(fileRules)
    /\ activations = InitialStates(rules)
    /\ pump = [p \in Pumps |-> IdlePump]

NextModify ==
    \/ \E p \in Pumps, msg \in ModifyMessages, sys \in SysIds, modOk \in BOOLEAN :
           Receive(p, Packet(msg, sys), modOk)
    \/ \E p \in Pumps, modOk \in BOOLEAN : Check(p, modOk)

SpecModify == InitModify /\ [][NextModify]_vars

(***************************************************************************)
(* The rule engine under a rule whose triggers name another rule in both   *)
(* lists and the rule itself in the deactivate list.  Only the pump        *)
(* towards the router can match it; the other rule matches both ways.      *)
(***************************************************************************)
RuleSelf ==
    [NoRule EXCEPT !.name = "self", !.message_type = "COMMAND_LONG",
                   !.priority = 10,
                   !.triggers = <<TriggerConfig(<<"twice">>, <<"twice", "self">>, <<1>>)>>,
                   !.plugins = <<"log">>, !.auto_ack = TRUE,
                   !.ack = <<"COMMAND_ACK">>, !.actions = <<"block">>]

RuleTwice ==
    [NoRule EXCEPT !.name = "twice", !.message_type = "COMMAND_LONG",
                   !.direction = "both", !.plugins = <<"audit">>,
                   !.actions = <<"forward">>]

InitOrder ==
    /\ InitBatch
    /\ InitProxyState
    /\ \E e \in BOOLEAN :
          fileRules = <<[RuleTwice EXCEPT !.enabled_by_default = e], RuleSelf>>
    /\ rules = SortByPriority(fileRules)
    /\ activations = InitialStates(rules)
    /\ pump = [p \in Pumps |-> IdlePump]

NextOrder ==
    \/ \E p \in Pumps, msg \in MessageTypes, sys \in SysIds, modOk \in BOOLEAN :
           Receive(p, Packet(msg, sys), modOk)
    \/ \E p \in Pumps, modOk \in BOOLEAN : Check(p, modOk)
    \/ \E p \in Pumps, modOk \in BOOLEAN : TriggerStep(p, modOk)

SpecOrder == InitOrder /\ [][NextOrder]_vars

(***************************************************************************)
(* The proxy (proxy.rs): one pump per GCS client towards the router, one   *)
(* pump from the router towards every GCS client, the rule engine between  *)
(* the read and the executor.  The rules of the configuration explored     *)
(* cover an acknowledged Block, a Delay, a Batch that drops on timeout and *)
(* a trigger that switches the other two rules; the modifier script of    *)
(* these runs never fails.                                                 *)
(***************************************************************************)
RuleAck ==
    [NoRule EXCEPT !.name = "ack", !.message_type = "COMMAND_LONG",
                   !.direction = "both", !.priority = 10,
                   !.triggers = <<TriggerConfig(<<"gather">>, <<"slow">>, <<1>>)>>,
                   !.auto_ack = TRUE, !.ack = <<"COMMAND_ACK">>,
                   !.actions = <<"block", "batch", "delay">>]

RuleSlow ==
    [NoRule EXCEPT !.name = "slow", !.message_type = "HEARTBEAT",
                   !.direction = "both",
                   !.actions = <<"delay">>, !.delay_seconds = <<1>>]

RuleGather ==
    [NoRule EXCEPT !.name = "gather", !.message_type = "MISSION_ITEM",
                   !.direction = "both",
                   !.actions = <<"batch", "modify">>, !.modifier = <<"disarm">>,
                   !.batch_count = <<2>>, !.batch_timeout_seconds = <<1>>,
                   !.batch_timeout_forward = FALSE]

ProxyRules == <<RuleSlow, RuleGather, RuleAck>>

\* the message types read from the sockets; no rule names the last one
ProxyMessages == {"COMMAND_LONG", "HEARTBEAT", "MISSION_ITEM", "PARAM_REQUEST_LIST"}

\* the router as the sender of a frame, in reads.from
Router == 0

\* the loop of process_message_with_direction, from pump state s on
RECURSIVE Scan(_, _, _)
Scan(p, s, modOk) ==
    IF s.pc = "scan" THEN Scan(p, Examine(p, s, modOk), modOk) ELSE s

\* the state-manager calls of execute_triggers, made in order on acts
RECURSIVE ApplyTriggers(_, _)
ApplyTriggers(acts, pending) ==
    IF pending = <<>> THEN acts
    ELSE LET t == Head(pending)
         IN  ApplyTriggers(IF t.op = "activate"
                           THEN ActivateRule(acts, t.rule, t.duration, <<>>)
                           ELSE DeactivateRule(acts, t.rule),
                           Tail(pending))

\* process_message_with_direction as one call: the ProcessResult with the
\* rule it came from, and the activation map the call leaves
ProcessMessageWithDirection(pkt, p, modOk) ==
    LET s == Scan(p, Entered(pkt), modOk)
        done == IF s.pc = "triggers"
                THEN Return([s EXCEPT !.triggered = s.pending], rules[s.i], modOk)
                ELSE s
    IN  [source |-> done.source, actions |-> done.actions,
         ack_info |-> done.ack_info, triggered |-> s.pending,
         activations |-> ApplyTriggers(activations, s.pending)]

\* mutant: a frame that does not parse is given to the rule engine
UnparsedConsultsRules(pkt, direction) ==
    ProcessMessageWithDirection(pkt, direction, TRUE)

\* the else branch of the parse: forward, no ACK, the rule engine not called
Unparsed(pkt, direction) ==
    [source |-> "", actions |-> <<Forward>>, ack_info |-> <<>>,
     triggered |-> <<>>, activations |-> activations]

\* mutant: the writer looked up is that of the client registered last
GetGcsClientLast(client_id) ==
    IF clients = {} THEN <<>>
    ELSE <<CHOOSE c \in clients : \A d \in clients : d <= c>>

\* ProxyState::get_gcs_client: the writer of the client, if registered
GetGcsClient(client_id) ==
    IF client_id \in clients THEN <<client_id>> ELSE <<>>

\* build_ack: the reply to frame f
BuildAck(f, ack_info) == [id |-> f.id, sys |-> f.sys, body |-> ack_info.message_type]

\* the message names serde_json::from_value turns into a MavMessage
MavMessageNames == ProxyMessages \cup {"COMMAND_ACK"}

\* mutant: build_ack returns a packet for any type name
BuildAckOkAlways(ack_info) == TRUE

\* build_ack returns Ok: the type named by the rule is a MAVLink message
BuildAckOk(ack_info) == ack_info.message_type \in MavMessageNames

\* history of a read: the sender and the ProcessResult
ReadRecord(from, parsed, msg, result) ==
    [from |-> from, parsed |-> parsed, msg |-> IF parsed THEN msg ELSE "",
     source |-> result.source, triggered |-> result.triggered,
     actions |-> result.actions, ack |-> result.ack_info # <<>>]

InitProxy ==
    /\ InitBatch
    /\ InitProxyState
    /\ fileRules = ProxyRules
    /\ rules = SortByPriority(fileRules)
    /\ activations = InitialStates(rules)
    /\ pump = [p \in Pumps |-> IdlePump]

\* the accept loop of run: add_gcs_client and the spawn of the client's pump
Connect ==
    /\ nextClient <= NumClients
    /\ bcast = {}
    /\ clients' = clients \cup {nextClient}
    /\ nextClient' = nextClient + 1
    /\ UNCHANGED <<gcsOut, bcast, bdelayed, reads, batchVars, ruleVars, sweepVars, ioVars>>

\* mutant: the delay tasks of a client end with its pump
DisconnectCancelsDelays(c) ==
    /\ c \in clients
    /\ \A d \in clients : c <= d
    /\ Idle(c)
    /\ bcast = {}
    /\ clients' = clients \ {c}
    /\ delayed' = {t \in delayed : \A k \in 1..Len(t.pkts) : t.pkts[k].sys # c}
    /\ UNCHANGED <<nextClient, gcsOut, bcast, bdelayed, reads, now, nextFrame,
                   running, batches, timeouts, tmo, routerOut, nextBatch, tailRuns,
                   ended, blocked, ruleVars, sweepVars, ioVars>>

\* the pump of client c ends on a read error and the client is removed;
\* of interchangeable clients the one of the lowest id leaves
Disconnect(c) ==
    /\ c \in clients
    /\ \A d \in clients : c <= d
    /\ Idle(c)
    /\ bcast = {}
    /\ clients' = clients \ {c}
    /\ UNCHANGED <<nextClient, gcsOut, bcast, bdelayed, reads, batchVars, ruleVars,
                   sweepVars, ioVars>>

\* forward_gcs_to_router: one turn of the loop of client c's pump.  The
\* pumps run the same code and differ by the client id only, so of the
\* pumps that wait for a frame the one of the lowest id reads it.  sendOk
\* tells whether write_all of the ACK to the client's socket returns Ok.
GcsReadAck(c, parsed, msg, sendOk) ==
    LET f == Frame(nextFrame, c)
        result == IF parsed
                  THEN ProcessMessageWithDirection(Packet(msg, c), "gcs_to_router", TRUE)
                  ELSE Unparsed(Packet(msg, c), "gcs_to_router")
        gcs_writer == GetGcsClient(c)
    IN  /\ nextFrame <= MaxPackets
        /\ c \in clients
        /\ Idle(c)
        /\ \A d \in clients : Idle(d) => c <= d
        /\ nextFrame' = nextFrame + 1
        /\ reads' = Append(reads, ReadRecord(c, parsed, msg, result))
        /\ activations' = result.activations
        /\ gcsOut' = IF /\ result.ack_info # <<>>
                        /\ BuildAckOk(result.ack_info[1])
                        /\ gcs_writer # <<>>
                        /\ sendOk
                     THEN [gcsOut EXCEPT ![gcs_writer[1]] =
                              Append(@, BuildAck(f, result.ack_info[1]))]
                     ELSE gcsOut
        /\ Step(c, result.actions, <<f>>, running, delayed)
        /\ UNCHANGED <<now, fileRules, rules, pump, clients, nextClient, bcast, bdelayed,
                       sweepVars, ioVars>>

\* the turn of the loop when write_all on the client's socket succeeds
GcsRead(c, parsed, msg) == GcsReadAck(c, parsed, msg, TRUE)

(***************************************************************************)
(* execute_actions_impl_broadcast from its entry to its first suspension   *)
(* point: "done", "write" (a broadcast of pkts is due) or "delay".         *)
(***************************************************************************)
\* mutant: a Batch step keeps the frames, as if the aggregator queued them
RECURSIVE ExecuteActionsImplBroadcastQueues(_, _)
ExecuteActionsImplBroadcastQueues(acts, pkts) ==
    IF acts = <<>>
    THEN IF pkts = <<>> THEN Outcome("done", 0, <<>>, <<>>)
                        ELSE Outcome("write", 0, <<>>, pkts)
    ELSE LET action == Head(acts)
             remaining_actions == Tail(acts)
         IN  CASE action.t = "Forward" ->
                      ExecuteActionsImplBroadcastQueues(remaining_actions, pkts)
               [] action.t \in {"Block", "Batch"} -> Outcome("done", 0, <<>>, <<>>)
               [] action.t = "Modify" ->
                      ExecuteActionsImplBroadcastQueues(remaining_actions,
                                                        ModifyFrames(pkts, action.msg))
               [] action.t = "Delay" -> Outcome("delay", action.d, remaining_actions, pkts)

RECURSIVE ExecuteActionsImplBroadcast(_, _)
ExecuteActionsImplBroadcast(acts, pkts) ==
    IF acts = <<>>
    THEN IF pkts = <<>> THEN Outcome("done", 0, <<>>, <<>>)
                        ELSE Outcome("write", 0, <<>>, pkts)
    ELSE LET action == Head(acts)
             remaining_actions == Tail(acts)
         IN  CASE action.t = "Forward" ->
                      ExecuteActionsImplBroadcast(remaining_actions, pkts)
               [] action.t = "Block" -> Outcome("done", 0, <<>>, <<>>)
               [] action.t = "Modify" ->
                      ExecuteActionsImplBroadcast(remaining_actions,
                                                  ModifyFrames(pkts, action.msg))
               [] action.t = "Delay" -> Outcome("delay", action.d, remaining_actions, pkts)
               [] action.t = "Batch" ->
                      ExecuteActionsImplBroadcast(remaining_actions, pkts)

\* broadcast_to_all_gcs takes the read lock of the client map; the clients
\* it will write to are those registered then.  The map cannot change
\* while a broadcast holds the lock, so concurrent broadcasts iterate it
\* in one and the same order, which is taken to be that of the ids.
\* mutant: the loop over the map ends after its first client
BroadcastingToOne(owner, pkts) ==
    IF pkts = <<>> \/ clients = {} THEN {}
    ELSE {[owner |-> owner, pkts |-> pkts,
           todo |-> {CHOOSE c \in clients : \A d \in clients : c <= d}]}

\* mutant: the loop goes over every client that ever registered
BroadcastingToEverRegistered(owner, pkts) ==
    IF pkts = <<>> \/ nextClient = 1 THEN {}
    ELSE {[owner |-> owner, pkts |-> pkts, todo |-> 1..(nextClient - 1)]}

Broadcasting(owner, pkts) ==
    IF pkts = <<>> \/ clients = {} THEN {}
    ELSE {[owner |-> owner, pkts |-> pkts, todo |-> clients]}

\* clients.iter().next() of a broadcast that still has to write to todo
NextClient(todo) == CHOOSE c \in todo : \A d \in todo : c <= d

\* the branch the router pump takes on the action list
RouterOutcome(acts, pkts) ==
    IF acts = <<>> \/ Head(acts).t = "Forward"
    THEN Outcome("write", 0, <<>>, pkts)
    ELSE ExecuteActionsImplBroadcast(acts, pkts)

\* the router pump awaits the broadcasts it makes itself ("pump"), not
\* those of the Delay tasks ("task")
RouterIdle == ~\E b \in bcast : b.owner = "pump"

\* history: the frames with which the executor of the router direction
\* arrives at a Block step
RECURSIVE AtBlockBroadcast(_, _)
AtBlockBroadcast(acts, pkts) ==
    IF acts = <<>> THEN {}
    ELSE CASE Head(acts).t \in {"Forward", "Modify", "Batch"} ->
                  AtBlockBroadcast(Tail(acts), pkts)
           [] Head(acts).t = "Block" -> {pkts[i].id : i \in 1..Len(pkts)}
           [] OTHER -> {}

\* forward_router_to_all_gcs: one turn of the loop of the router pump
RouterRead(parsed, msg) ==
    LET f == Frame(nextFrame, 1)
        result == IF parsed
                  THEN ProcessMessageWithDirection(Packet(msg, 1), "router_to_gcs", TRUE)
                  ELSE Unparsed(Packet(msg, 1), "router_to_gcs")
        r == RouterOutcome(result.actions, <<f>>)
    IN  /\ nextFrame <= MaxPackets
        /\ RouterIdle
        /\ nextFrame' = nextFrame + 1
        /\ reads' = Append(reads, ReadRecord(Router, parsed, msg, result))
        /\ activations' = result.activations
        /\ routerOut' = IF result.ack_info # <<>>
                        THEN Append(routerOut, BuildAck(f, result.ack_info[1]))
                        ELSE routerOut
        /\ bcast' = bcast \cup (IF r.kind = "write" THEN Broadcasting("pump", r.pkts)
                                ELSE {})
        /\ bdelayed' = bdelayed \cup Spawned(r)
        /\ blocked' = blocked \cup
                        (IF result.actions = <<>> \/ Head(result.actions).t = "Forward"
                         THEN {} ELSE AtBlockBroadcast(result.actions, <<f>>))
        /\ UNCHANGED <<now, running, delayed, batches, timeouts, tmo, nextBatch,
                       tailRuns, ended, fileRules, rules, pump, clients, nextClient,
                       gcsOut, sweepVars, ioVars>>

\* the write to one client of the loop of broadcast_to_all_gcs; after the
\* last client the read lock is dropped and the next packet, if any, is
\* broadcast
BroadcastSend(b) ==
    LET c == NextClient(b.todo) IN
    /\ gcsOut' = [gcsOut EXCEPT ![c] = Append(@, Head(b.pkts))]
    /\ bcast' = (bcast \ {b}) \cup
                  (IF b.todo = {c} THEN Broadcasting(b.owner, Tail(b.pkts))
                   ELSE {[b EXCEPT !.todo = @ \ {c}]})
    /\ UNCHANGED <<clients, nextClient, bdelayed, reads, batchVars, ruleVars, sweepVars, ioVars>>

\* the Delay task of the router direction wakes up, not before its
\* deadline, and runs the executor on the remaining actions
WakeBroadcastDelay(t) ==
    LET r == ExecuteActionsImplBroadcast(t.acts, t.pkts)
    IN  /\ now >= t.deadline
        /\ bcast' = bcast \cup (IF r.kind = "write" THEN Broadcasting("task", r.pkts) ELSE {})
        /\ bdelayed' = (bdelayed \ {t}) \cup Spawned(r)
        /\ blocked' = blocked \cup AtBlockBroadcast(t.acts, t.pkts)
        /\ UNCHANGED <<now, nextFrame, running, delayed, batches, timeouts, tmo,
                       routerOut, nextBatch, tailRuns, ended, ruleVars, clients,
                       nextClient, gcsOut, reads, sweepVars, ioVars>>

\* time passes.  With no sleeping task and no activation about to expire
\* the clock is read by nobody, so only the time somebody waits for counts.
\* The sleeps last seconds and the steps of a runnable task no time to
\* speak of: the clock stands still while a task is runnable.
Advance ==
    /\ running = {} /\ bcast = {} /\ ~tmo.active
    /\ \A t \in delayed : t.deadline > now
    /\ \A t \in bdelayed : t.deadline > now
    /\ \A t \in timeouts : t.deadline > now
    /\ \/ \E t \in delayed : t.deadline > now
       \/ \E t \in bdelayed : t.deadline > now
       \/ \E t \in timeouts : t.deadline > now
       \/ \E n \in DOMAIN activations :
              activations[n].expiration # <<>> /\ activations[n].expiration[1] > now
    /\ now' = now + 1
    /\ UNCHANGED <<batchRest, ruleVars, proxyVars, sweepVars, ioVars>>

NextProxy ==
    \/ Connect
    \/ \E c \in Clients : Disconnect(c)
    \/ \E c \in Clients, parsed \in BOOLEAN, msg \in ProxyMessages :
           GcsRead(c, parsed, msg)
    \/ \E parsed \in BOOLEAN, msg \in ProxyMessages : RouterRead(parsed, msg)
    \/ \E e \in running : Continue(e)
    \/ \E t \in delayed : WakeDelay(t)
    \/ \E t \in timeouts : HandleTimeout(t)
    \/ \E b \in bcast : BroadcastSend(b)
    \/ \E t \in bdelayed : WakeBroadcastDelay(t)
    \/ Sweep
    \/ Advance

SpecProxy == InitProxy /\ [][NextProxy]_vars

\* the GCS -> router direction alone; every task that can run does run
NextGcs ==
    \/ Connect
    \/ \E c \in Clients : Disconnect(c)
    \/ \E c \in Clients, parsed \in BOOLEAN, msg \in ProxyMessages :
           GcsRead(c, parsed, msg)
    \/ \E e \in running : Continue(e)
    \/ \E t \in delayed : WakeDelay(t)
    \/ \E t \in timeouts : HandleTimeout(t)
    \/ Sweep
    \/ Advance

SpecGcs ==
    /\ InitProxy
    /\ [][NextGcs]_vars
    /\ WF_vars(\E e \in running : Continue(e))
    /\ WF_vars(\E t \in delayed : WakeDelay(t))
    /\ WF_vars(\E t \in timeouts : HandleTimeout(t))
    /\ WF_vars(Advance)

(***************************************************************************)
(* The router -> GCS direction alone, under rules of that direction whose  *)
(* action lists begin with forward and go on with block, delay or modify,  *)
(* and one rule whose list begins with delay.                              *)
(***************************************************************************)
RuleForwardBlock ==
    [NoRule EXCEPT !.name = "fb", !.message_type = "HEARTBEAT",
                   !.direction = "router_to_gcs",
                   !.actions = <<"forward", "block">>]

RuleForwardDelay ==
    [NoRule EXCEPT !.name = "fd", !.message_type = "MISSION_ITEM",
                   !.direction = "router_to_gcs",
                   !.actions = <<"forward", "delay">>, !.delay_seconds = <<1>>]

RuleForwardModify ==
    [NoRule EXCEPT !.name = "fm", !.message_type = "COMMAND_LONG",
                   !.direction = "router_to_gcs",
                   !.actions = <<"forward", "modify">>, !.modifier = <<"disarm">>]

RuleDelayModify ==
    [NoRule EXCEPT !.name = "dm", !.message_type = "PARAM_REQUEST_LIST",
                   !.direction = "router_to_gcs",
                   !.actions = <<"delay", "modify">>, !.modifier = <<"disarm">>,
                   !.delay_seconds = <<1>>]

RouterRules == <<RuleForwardBlock, RuleForwardDelay, RuleForwardModify, RuleDelayModify>>

InitRouter ==
    /\ InitBatch
    /\ InitProxyState
    /\ fileRules = RouterRules
    /\ rules = SortByPriority(fileRules)
    /\ activations = InitialStates(rules)
    /\ pump = [p \in Pumps |-> IdlePump]

NextRouter ==
    \/ Connect
    \/ \E c \in Clients : Disconnect(c)
    \/ \E parsed \in BOOLEAN, msg \in ProxyMessages : RouterRead(parsed, msg)
    \/ \E b \in bcast : BroadcastSend(b)
    \/ \E t \in bdelayed : WakeBroadcastDelay(t)
    \/ Advance

SpecRouter == InitRouter /\ [][NextRouter]_vars

(***************************************************************************)
(* The GCS -> router direction under acknowledged rules that block, that   *)
(* delay and that name an ACK type build_ack cannot build; writes to the   *)
(* socket of one client fail.                                              *)
(***************************************************************************)
RuleAckBlock ==
    [NoRule EXCEPT !.name = "ab", !.message_type = "COMMAND_LONG",
                   !.auto_ack = TRUE, !.ack = <<"COMMAND_ACK">>,
                   !.actions = <<"block">>]

RuleAckDelay ==
    [NoRule EXCEPT !.name = "ad", !.message_type = "HEARTBEAT",
                   !.auto_ack = TRUE, !.ack = <<"COMMAND_ACK">>,
                   !.actions = <<"delay", "forward">>, !.delay_seconds = <<1>>]

RuleAckUnknown ==
    [NoRule EXCEPT !.name = "au", !.message_type = "MISSION_ITEM",
                   !.auto_ack = TRUE, !.ack = <<"NO_SUCH_ACK">>,
                   !.actions = <<"forward">>]

AckRules == <<RuleAckBlock, RuleAckDelay, RuleAckUnknown>>

\* the client on whose socket write_all returns an error
BrokenClient == 2

InitAck ==
    /\ InitBatch
    /\ InitProxyState
    /\ fileRules = AckRules
    /\ rules = SortByPriority(fileRules)
    /\ activations = InitialStates(rules)
    /\ pump = [p \in Pumps |-> IdlePump]

NextAck ==
    \/ Connect
    \/ \E c \in Clients : Disconnect(c)
    \/ \E c \in Clients, parsed \in BOOLEAN, msg \in ProxyMessages :
           GcsReadAck(c, parsed, msg, c # BrokenClient)
    \/ \E t \in delayed : WakeDelay(t)
    \/ Advance

SpecAck == InitAck /\ [][NextAck]_vars

(***************************************************************************)
(* The proxy with one GCS client that does not read its socket: once the   *)
(* socket's send buffer is full, write_all on it does not complete.  The   *)
(* client sends no command that is acknowledged, so its own pump has       *)
(* nothing to write to it.  Every task that can run does run.              *)
(***************************************************************************)
SlowClient == 1

\* stream.write_all(packet) on the socket of client c completes
SocketAccepts(c) == c # SlowClient

\* the loop of broadcast_to_all_gcs goes on once the write it awaits
\* completes
BroadcastWrite(b) ==
    /\ SocketAccepts(NextClient(b.todo))
    /\ BroadcastSend(b)

\* a turn of the pump of client c that writes no ACK to a blocked socket
GcsReadNoAck(c, parsed, msg) ==
    /\ SocketAccepts(c) \/ msg # RuleAck.message_type
    /\ GcsRead(c, parsed, msg)

NextSlow ==
    \/ Connect
    \/ \E c \in Clients : Disconnect(c)
    \/ \E c \in Clients, parsed \in BOOLEAN, msg \in ProxyMessages :
           GcsReadNoAck(c, parsed, msg)
    \/ \E parsed \in BOOLEAN, msg \in ProxyMessages : RouterRead(parsed, msg)
    \/ \E e \in running : Continue(e)
    \/ \E t \in delayed : WakeDelay(t)
    \/ \E t \in timeouts : HandleTimeout(t)
    \/ \E b \in bcast : BroadcastWrite(b)
    \/ \E t \in bdelayed : WakeBroadcastDelay(t)
    \/ Sweep
    \/ Advance

SpecSlow ==
    /\ InitProxy
    /\ [][NextSlow]_vars
    /\ WF_vars(\E e \in running : Continue(e))
    /\ WF_vars(\E t \in delayed : WakeDelay(t))
    /\ WF_vars(\E t \in timeouts : HandleTimeout(t))
    /\ WF_vars(\E b \in bcast : BroadcastWrite(b))
    /\ WF_vars(\E t \in bdelayed : WakeBroadcastDelay(t))
    /\ WF_vars(Advance)

(***************************************************************************)
(* RuleStateManager on its own (rule_state.rs): its public methods called  *)
(* with every name, duration and context, and the cleanup task of          *)
(* spawn_cleanup_task on its interval of one second.  Calls and ticks fall *)
(* on whole seconds and interleave freely within one; a tick that is due   *)
(* fires before the clock moves on.                                        *)
(***************************************************************************)
MaxClock == 4

\* Duration::from_secs(1) of the interval
SweepPeriod == 1

Durations == {1, 2}

\* trigger contexts: the empty map and a map with one entry
Contexts == {<<>>, <<"target">>}

\* the names the methods are called with: the one rule of the list, and a
\* name no rule has
StateNames == {"b", "z"}

\* history of a call: what it asked for and the entry it found
Call(op, deadline, context, before) ==
    [op |-> op, deadline |-> deadline, context |-> context, before |-> before]

\* activations.get(rule_name)
Entry(acts, rule_name) == IF rule_name \in DOMAIN acts THEN <<acts[rule_name]>> ELSE <<>>

InitState ==
    /\ InitBatch
    /\ InitProxyState
    /\ \E e \in BOOLEAN : fileRules = <<[RuleB EXCEPT !.enabled_by_default = e]>>
    /\ rules = SortByPriority(fileRules)
    /\ activations = InitialStates(rules)
    /\ pump = [p \in Pumps |-> IdlePump]

\* activate_rule(rule_name, duration, context)
Activate(rule_name, duration, context) ==
    /\ activations' = ActivateRule(activations, rule_name, duration, context)
    /\ last' = Insert(last, rule_name,
                      Call("activate", now + duration, context,
                           Entry(activations, rule_name)))
    /\ UNCHANGED <<batchVars, fileRules, rules, pump, proxyVars, nextSweep, ioVars>>

\* deactivate_rule(rule_name)
Deactivate(rule_name) ==
    /\ activations' = DeactivateRule(activations, rule_name)
    /\ last' = Insert(last, rule_name,
                      Call("deactivate", 0, <<>>, Entry(activations, rule_name)))
    /\ UNCHANGED <<batchVars, fileRules, rules, pump, proxyVars, nextSweep, ioVars>>

\* one turn of the loop of the cleanup task: interval.tick() completes at
\* nextSweep, first at once and then every period, and cleanup_expired runs
CleanupTask ==
    /\ now >= nextSweep
    /\ activations' = CleanupExpired(activations)
    /\ nextSweep' = nextSweep + SweepPeriod
    /\ UNCHANGED <<batchVars, fileRules, rules, pump, proxyVars, last, ioVars>>

\* a second passes, unless a tick of the cleanup task is due
Pass ==
    /\ now < MaxClock
    /\ now < nextSweep
    /\ now' = now + 1
    /\ UNCHANGED <<batchRest, ruleVars, proxyVars, sweepVars, ioVars>>

NextState ==
    \/ \E n \in StateNames, d \in Durations, ctx \in Contexts : Activate(n, d, ctx)
    \/ \E n \in StateNames : Deactivate(n)
    \/ CleanupTask
    \/ Pass

SpecState == InitState /\ [][NextState]_vars

(***************************************************************************)
(* The rule engine with the cleanup task (rules.rs, rule_state.rs): the    *)
(* pumps call process_message_with_direction while seconds pass and the    *)
(* cleanup task ticks.  One rule switches a rule that is disabled by       *)
(* default on for two seconds and another rule off; a third rule switches  *)
(* them back.                                                              *)
(***************************************************************************)
RuleArm ==
    [NoRule EXCEPT !.name = "arm", !.message_type = "COMMAND_LONG",
                   !.direction = "both",
                   !.triggers = <<TriggerConfig(<<"hold">>, <<"relay">>, <<2>>)>>,
                   !.actions = <<"forward">>]

RuleHold ==
    [NoRule EXCEPT !.name = "hold", !.message_type = "HEARTBEAT",
                   !.direction = "both", !.priority = 10,
                   !.enabled_by_default = FALSE, !.actions = <<"block">>]

RuleRelay ==
    [NoRule EXCEPT !.name = "relay", !.message_type = "HEARTBEAT",
                   !.direction = "both",
                   !.actions = <<"delay">>, !.delay_seconds = <<1>>]

RuleStop ==
    [NoRule EXCEPT !.name = "stop", !.message_type = "MISSION_ITEM",
                   !.direction = "both",
                   !.triggers = <<TriggerConfig(<<"relay">>, <<"hold">>, <<1>>)>>,
                   !.actions = <<"block">>]

TimedRules == <<RuleArm, RuleRelay, RuleHold, RuleStop>>

TimedMessages == {"COMMAND_LONG", "HEARTBEAT", "MISSION_ITEM"}

InitTimed ==
    /\ InitBatch
    /\ InitProxyState
    /\ fileRules = TimedRules
    /\ rules = SortByPriority(fileRules)
    /\ activations = InitialStates(rules)
    /\ pump = [p \in Pumps |-> IdlePump]

\* history of the state-manager calls of execute_triggers, made in order
RECURSIVE RecordTriggers(_, _, _)
RecordTriggers(calls, acts, pending) ==
    IF pending = <<>> THEN calls
    ELSE LET t == Head(pending)
             activate == t.op = "activate"
         IN  RecordTriggers(
                 Insert(calls, t.rule,
                        Call(t.op, IF activate THEN now + t.duration ELSE 0, <<>>,
                             Entry(acts, t.rule))),
                 ApplyTriggers(acts, <<t>>), Tail(pending))

\* the pump of direction p gets a packet of type msg and calls
\* process_message_with_direction; history: the time and the ProcessResult
Process(p, msg) ==
    LET result == ProcessMessageWithDirection(Packet(msg, 1), p, TRUE)
    IN  /\ nextFrame <= MaxFrames
        /\ nextFrame' = nextFrame + 1
        /\ activations' = result.activations
        /\ last' = RecordTriggers(last, activations, result.triggered)
        /\ reads' = Append(reads, [at |-> now, msg |-> msg,
                                    source |-> result.source,
                                    triggered |-> result.triggered,
                                    actions |-> result.actions])
        /\ UNCHANGED <<now, running, delayed, batches, timeouts, tmo, routerOut,
                       nextBatch, tailRuns, ended, blocked, fileRules, rules, pump,
                       clients, nextClient, gcsOut, bcast, bdelayed, nextSweep, ioVars>>

NextTimed ==
    \/ \E p \in Pumps, msg \in TimedMessages : Process(p, msg)
    \/ CleanupTask
    \/ Pass

SpecTimed == InitTimed /\ [][NextTimed]_vars

(***************************************************************************)
(* Vocabulary of the properties.                                           *)
(***************************************************************************)
Ids(pkts) == {pkts[i].id : i \in 1..Len(pkts)}

IdSeq(pkts) == [i \in 1..Len(pkts) |-> pkts[i].id]

Systems(pkts) == {pkts[i].sys : i \in 1..Len(pkts)}

\* the frames of routerOut whose identity is in S, in write order
WrittenOf(S) == SelectSeq(routerOut, LAMBDA f : f.id \in S)

Live(id) == \E b \in batches : b.id = id

EndEvents(id) == {e \in ended : e.batch = id}

\* frames held by suspended invocations, Delay tasks or a sending timeout
InFlight ==
    UNION {Ids(e.pkts) : e \in running} \cup UNION {Ids(t.pkts) : t \in delayed}
      \cup Ids(tmo.pkts)

\* what an action list lets through to the sink, timing aside: the frames
\* as rewritten by its Modify steps, none after a Block or a Batch step
RECURSIVE Through(_, _)
Through(acts, pkts) ==
    IF acts = <<>> THEN pkts
    ELSE CASE Head(acts).t \in {"Forward", "Delay"} -> Through(Tail(acts), pkts)
           [] Head(acts).t = "Modify" ->
                  Through(Tail(acts), ModifyFrames(pkts, Head(acts).msg))
           [] OTHER -> <<>>

(***************************************************************************)
(* C1: a batch that a timeout task removes is the batch the task was       *)
(* spawned for; a task spawned for an earlier batch under the same key     *)
(* never removes, forwards or drops a later one.                           *)
(***************************************************************************)
C1_TimeoutActsOnOwnBatchOnly ==
    \A e \in ended : e.by = "timeout" => e.task = e.batch

(***************************************************************************)
(* C2: the batch map never holds two live BatchState entries under one     *)
(* batch key.                                                              *)
(***************************************************************************)
C2_OneBatchPerKey ==
    \A b1, b2 \in batches : b1.key = b2.key => b1 = b2

\* two keys are live at once, and one entry has been reused by a later call
C2_Witness ==
    /\ Cardinality(batches) = 2
    /\ \E b \in batches : Len(b.packets) >= 2

(***************************************************************************)
(* C3: every batch instance is ended by exactly one event, a threshold-    *)
(* crossing call or a timeout that found the key present, never both: a    *)
(* live batch has no end event, a batch that left the map has exactly one. *)
(***************************************************************************)
C3_EndedByExactlyOneEvent ==
    \A id \in 1..(nextBatch - 1) :
        /\ Live(id) => EndEvents(id) = {}
        /\ ~Live(id) => Cardinality(EndEvents(id)) = 1
        /\ \A e \in EndEvents(id) : e.by \in {"threshold", "timeout"}

\* one batch ended by threshold, another by timeout, and every timeout
\* task has run, the one of the threshold-released batch finding nothing
C3_Witness ==
    /\ \E e1, e2 \in ended : /\ e1.by = "threshold"
                             /\ e2.by = "timeout"
                             /\ e2.task = e2.batch
    /\ timeouts = {}
    /\ batches = {}

(***************************************************************************)
(* C4: every release of a batch, by threshold or by a forwarding timeout,  *)
(* runs the stored tail exactly once on the released frames, and no frame  *)
(* is written to the sink twice.                                           *)
(***************************************************************************)
C4_TailRunsOncePerRelease ==
    /\ \A e \in ended :
           (e.released # <<>> /\ ~tmo.active) => tailRuns[e.batch] = 1
    /\ \A i, j \in 1..Len(routerOut) :
           routerOut[i].id = routerOut[j].id => i = j

(***************************************************************************)
(* C5: the frames of a batch that timed out with forward_on_timeout reach  *)
(* the sink only as the stored tail lets them through: not at all after a  *)
(* Block, rewritten after a Modify.                                        *)
(***************************************************************************)
C5_TimeoutForwardGoesThroughTail ==
    \A e \in ended :
        (e.by = "timeout" /\ e.state.forward_on_timeout) =>
            \A i \in 1..Len(routerOut) :
                routerOut[i].id \in Ids(e.state.packets) =>
                    \E j \in 1..Len(Through(e.state.remaining_actions, e.state.packets)) :
                        Through(e.state.remaining_actions, e.state.packets)[j] = routerOut[i]

(***************************************************************************)
(* C6: after a timeout with forward_on_timeout = false no frame of the     *)
(* batch is written to the sink or handed on, and its tail never runs.     *)
(***************************************************************************)
C6_TimeoutDropWritesNothing ==
    \A e \in ended :
        (e.by = "timeout" /\ ~e.state.forward_on_timeout) =>
            /\ WrittenOf(Ids(e.state.packets)) = <<>>
            /\ Ids(e.state.packets) \cap InFlight = {}
            /\ tailRuns[e.batch] = 0

\* a batch was dropped on timeout while other frames did reach the sink
C6_Witness ==
    /\ \E e \in ended : e.by = "timeout" /\ ~e.state.forward_on_timeout
                                         /\ Len(e.state.packets) >= 2
    /\ routerOut # <<>>

(***************************************************************************)
(* C7: queue_or_release releases exactly when the distinct source systems  *)
(* inserted so far reach the threshold: a live batch is below it and holds *)
(* every frame inserted, a threshold release happened on the first insert  *)
(* that reached it and returned every frame inserted, duplicates included. *)
(***************************************************************************)
C7_ReleaseExactlyAtThreshold ==
    /\ \A b \in batches :
           /\ Cardinality(Systems(b.log)) < b.threshold
           /\ b.packets = b.log
    /\ \A e \in ended : e.by = "threshold" =>
           /\ Cardinality(Systems(e.state.log)) >= e.state.threshold
           /\ \A n \in 1..(Len(e.state.log) - 1) :
                  Cardinality(Systems(SubSeq(e.state.log, 1, n))) < e.state.threshold
           /\ e.released = e.state.log

\* a release that carries more frames than distinct systems: a frame from
\* an already-seen system was queued without advancing the count
C7_Witness ==
    \E e \in ended : /\ e.by = "threshold"
                     /\ Len(e.released) > Cardinality(Systems(e.released))

(***************************************************************************)
(* C8: a release returns the frames in the order of the queue_or_release   *)
(* calls (the order in which they took the batch-map lock), and the sink   *)
(* receives them in that order.                                            *)
(***************************************************************************)
C8_ReleaseInInsertionOrder ==
    \A e \in ended : e.released # <<>> =>
        /\ e.released = e.state.log
        /\ LET w == WrittenOf(Ids(e.state.log))
           IN  /\ Len(w) <= Len(e.state.log)
               /\ IdSeq(w) = SubSeq(IdSeq(e.state.log), 1, Len(w))

\* both frames of a threshold release are written, in order, with a frame
\* of another pump written between them
C8_Witness ==
    \E e \in ended :
        /\ e.by = "threshold"
        /\ Len(routerOut) = 3
        /\ routerOut[1].id = e.state.log[1].id
        /\ routerOut[3].id = e.state.log[2].id
        /\ routerOut[2].id \notin Ids(e.state.log)

(***************************************************************************)
(* Vocabulary of the rule-engine properties.                               *)
(***************************************************************************)
FileRuleSet == {fileRules[i] : i \in 1..Len(fileRules)}

FilePos(name) == CHOOSE i \in 1..Len(fileRules) : fileRules[i].name = name

\* r comes before m in descending priority, ties in file order
Precedes(r, m) ==
    \/ r.priority > m.priority
    \/ r.priority = m.priority /\ FilePos(r.name) < FilePos(m.name)

\* the pump state s has examined the rule and found it enabled / disabled
FoundEnabled(s, name) ==
    \E k \in 1..Len(s.checks) :
        s.checks[k].name = name /\ s.checks[k].enabled # <<FALSE>>

FoundDisabled(s, name) ==
    \E k \in 1..Len(s.checks) :
        s.checks[k].name = name /\ s.checks[k].enabled = <<FALSE>>

\* the rules a side effect of the call in s was made for
EffectSources(s) ==
    {s.triggered[k].by : k \in 1..Len(s.triggered)}
      \cup {s.plugins_run[k].by : k \in 1..Len(s.plugins_run)}
      \cup {s.ack_info[k].by : k \in 1..Len(s.ack_info)}
      \cup (IF s.source # "" THEN {s.source} ELSE {})

\* the Action variants a configured action name may turn into
Variants(action_name) ==
    CASE action_name = "delay" -> {"Delay"}
      [] action_name = "batch" -> {"Batch"}
      [] action_name = "block" -> {"Block"}
      [] action_name = "modify" -> {"Modify", "Forward"}
      [] OTHER -> {"Forward"}

ActionsOf(s, m) ==
    /\ Len(s.actions) = Len(m.actions)
    /\ \A k \in 1..Len(m.actions) : s.actions[k].t \in Variants(m.actions[k])

(***************************************************************************)
(* C9: the rule whose actions a call returns is the first rule, in         *)
(* descending priority with ties in file order, that the call found        *)
(* enabled and that matches the packet: every rule before it in that order *)
(* was examined and was disabled or does not match; when the call returns  *)
(* the default, no rule was found enabled and matching.                    *)
(***************************************************************************)
C9_FirstEnabledMatchInPriorityOrder ==
    \A p \in Pumps :
        LET s == pump[p] IN
        /\ s.source # "" =>
              \E m \in FileRuleSet :
                  /\ m.name = s.source
                  /\ FoundEnabled(s, m.name) /\ MatchesRule(s.pkt, m, p)
                  /\ \A r \in FileRuleSet : Precedes(r, m) =>
                         \/ FoundDisabled(s, r.name)
                         \/ FoundEnabled(s, r.name) /\ ~MatchesRule(s.pkt, r, p)
                  /\ s.pc = "done" => ActionsOf(s, m)
        /\ (s.pc = "done" /\ s.source = "") =>
              /\ s.actions = <<Forward>>
              /\ \A r \in FileRuleSet :
                     \/ FoundDisabled(s, r.name)
                     \/ FoundEnabled(s, r.name) /\ ~MatchesRule(s.pkt, r, p)

\* the first call returned the actions of a rule although a rule of the
\* same priority, later in the file and enabled from the start, matches
\* as well
C9_Witness ==
    \E p \in Pumps : \E m, r \in FileRuleSet :
        /\ pump[p].pc = "done" /\ pump[p].source = m.name
        /\ r.priority = m.priority /\ FilePos(m.name) < FilePos(r.name)
        /\ MatchesRule(pump[p].pkt, r, p)
        /\ r.enabled_by_default
        /\ nextFrame = 2

(***************************************************************************)
(* C10: a rule that a call found disabled produces no side effect in that  *)
(* call: none of the triggers executed, the plugins invoked, the ACK       *)
(* descriptor built or the actions returned is that rule's.                *)
(***************************************************************************)
C10_DisabledRuleHasNoSideEffect ==
    \A p \in Pumps : \A r \in FileRuleSet :
        FoundDisabled(pump[p], r.name) => r.name \notin EffectSources(pump[p])

\* a call skipped a disabled rule that matches its packet, and a rule
\* after it fired its triggers and plugins
C10_Witness ==
    \E p \in Pumps : \E r \in FileRuleSet :
        /\ pump[p].pc = "done"
        /\ FoundDisabled(pump[p], r.name)
        /\ MatchesRule(pump[p].pkt, r, p)
        /\ pump[p].triggered # <<>>
        /\ pump[p].plugins_run # <<>>

(***************************************************************************)
(* C11 and C12 state matching in their own words: the rule is for the      *)
(* direction of the packet, for its message type, and its conditions hold. *)
(***************************************************************************)
Fits(pkt, r, direction) ==
    /\ r.direction \in {"both", direction}
    /\ r.message_type = pkt.msg
    /\ r.system_id \in {<<>>, <<pkt.sys>>}

\* the state-manager calls the triggers of rule r ask for
ConfiguredOps(r) ==
    IF r.triggers = <<>> THEN {}
    ELSE {[op |-> "activate", rule |-> r.triggers[1].activate_rules[k],
           by |-> r.name] : k \in 1..Len(r.triggers[1].activate_rules)}
         \cup {[op |-> "deactivate", rule |-> r.triggers[1].deactivate_rules[k],
                by |-> r.name] : k \in 1..Len(r.triggers[1].deactivate_rules)}

(***************************************************************************)
(* C11: per processed packet at most one rule has side effects, and it is  *)
(* a rule that matches with no enabled matching rule before it: a rule     *)
(* that does not match, or that comes after the first match, changes no    *)
(* activation, has no plugin invoked and gives no ACK descriptor.          *)
(***************************************************************************)
C11_OnlyFirstMatchHasSideEffects ==
    \A p \in Pumps :
        LET s == pump[p] IN
        /\ Cardinality(EffectSources(s)) <= 1
        /\ \A r \in FileRuleSet : r.name \in EffectSources(s) =>
              /\ Fits(s.pkt, r, p)
              /\ \A q \in FileRuleSet :
                     (Precedes(q, r) /\ Fits(s.pkt, q, p)) => FoundDisabled(s, q.name)
        /\ \A k \in 1..Len(s.triggered) :
               \E r \in FileRuleSet :
                   /\ r.name = s.source
                   /\ [op |-> s.triggered[k].op, rule |-> s.triggered[k].rule,
                       by |-> s.triggered[k].by] \in ConfiguredOps(r)

\* a call examined an enabled rule that does not match, then fired the
\* triggers and plugins or ACK of the first match, and a rule after that
\* one matches the packet too
C11_Witness ==
    \E p \in Pumps : \E r, m, q \in FileRuleSet :
        /\ pump[p].pc = "done" /\ pump[p].source = m.name
        /\ pump[p].triggered # <<>>
        /\ FoundEnabled(pump[p], r.name) /\ ~Fits(pump[p].pkt, r, p)
        /\ Precedes(r, m) /\ Precedes(m, q)
        /\ Fits(pump[p].pkt, q, p)

(***************************************************************************)
(* C12: when no rule that the call found enabled matches the packet, the   *)
(* call returns exactly [Forward], no ACK descriptor, and has made no      *)
(* state-manager call and no plugin call.                                  *)
(***************************************************************************)
C12_NoMatchReturnsForward ==
    \A p \in Pumps :
        LET s == pump[p] IN
        (/\ s.pc = "done"
         /\ \A r \in FileRuleSet : ~(FoundEnabled(s, r.name) /\ Fits(s.pkt, r, p)))
        => /\ s.actions = <<Forward>>
           /\ s.ack_info = <<>>
           /\ s.triggered = <<>>
           /\ s.plugins_run = <<>>
           /\ s.source = ""

\* a call returned the default although a rule matches the packet: the
\* rule was disabled when the call examined it
C12_Witness ==
    \E p \in Pumps : \E r \in FileRuleSet :
        /\ pump[p].pc = "done" /\ pump[p].source = ""
        /\ pump[p].actions = <<Forward>>
        /\ Len(pump[p].checks) = Len(rules)
        /\ FoundDisabled(pump[p], r.name) /\ Fits(pump[p].pkt, r, p)

(***************************************************************************)
(* Vocabulary of the proxy properties.                                     *)
(***************************************************************************)
FrameIds == 1..Len(reads)

FromRouter(i) == reads[i].from = Router

\* frame i as its pump read it
Original(i) == Frame(i, IF FromRouter(i) THEN 1 ELSE reads[i].from)

IsAck(f) == f.body = "COMMAND_ACK"

\* what a sink holds of frame i, and of the ACKs made for it
Copies(out, i) == SelectSeq(out, LAMBDA f : f.id = i /\ ~IsAck(f))

Acks(out, i) == SelectSeq(out, LAMBDA f : f.id = i /\ IsAck(f))

\* frame i was parsed and no enabled rule matched it
Unmatched(i) == reads[i].parsed /\ reads[i].source = ""

\* a broadcast of frame i has still to write to client c
Pending(i, c) == \E b \in bcast : Head(b.pkts).id = i /\ c \in b.todo

Increasing(seq) == \A k \in 1..(Len(seq) - 1) : seq[k] < seq[k + 1]

\* the ids, in write order, of the frames of S a sink holds
IdsOf(out, S) == IdSeq(SelectSeq(out, LAMBDA f : f.id \in S /\ ~IsAck(f)))

\* frame i went unchanged to the sink of its direction and nowhere else:
\* to the router, or to the clients its broadcast has reached so far
ForwardedRaw(i) ==
    IF FromRouter(i)
    THEN /\ Copies(routerOut, i) = <<>>
         /\ \A c \in Clients :
               /\ Copies(gcsOut[c], i) \in {<<>>, <<Original(i)>>}
               /\ Pending(i, c) => Copies(gcsOut[c], i) = <<>>
    ELSE /\ Copies(routerOut, i) = <<Original(i)>>
         /\ \A c \in Clients : Copies(gcsOut[c], i) = <<>>

\* a broadcast in progress has written its frame to every registered
\* client it has not still to write to
BroadcastReachesAll ==
    \A b \in bcast : \A c \in clients :
        c \in b.todo \/ Copies(gcsOut[c], Head(b.pkts).id) # <<>>

\* a broadcast goes on by writing its frame to one client it has to write
\* to, and is over only after the last of them
BroadcastGoesOn ==
    \A b \in bcast :
        b \notin bcast' =>
            \E c \in b.todo :
                /\ gcsOut'[c] = Append(gcsOut[c], Head(b.pkts))
                /\ b.todo = {c} \/ [b EXCEPT !.todo = @ \ {c}] \in bcast'

\* the step reads a frame of the router for which the pump got acts, and
\* the pump goes on to broadcast pkts to every registered client
RouterFrameBroadcast(unmatched, acts, body) ==
    LET i == Len(reads')
    IN  (/\ Len(reads') = Len(reads) + 1
         /\ reads'[i].from = Router
         /\ reads'[i].actions = acts
         /\ (reads'[i].source = "") = unmatched)
        => bcast' = bcast \cup
              (IF clients = {} THEN {}
               ELSE {[owner |-> "pump",
                      pkts |-> <<[Frame(i, 1) EXCEPT !.body = body]>>,
                      todo |-> clients]})

(***************************************************************************)
(* C13: every frame that matches no enabled rule is written to its sink    *)
(* unchanged (a frame of a client to the router, a frame of the router to  *)
(* every client registered when it is broadcast, and nowhere else), and    *)
(* the unmatched frames of one sender are written in the order they were   *)
(* read, whatever delayed or batched frames are in flight.                 *)
(***************************************************************************)
UnmatchedInOrder ==
    \A s \in Clients \cup {Router} :
        LET S == {i \in FrameIds : Unmatched(i) /\ reads[i].from = s}
        IN  /\ Increasing(IdsOf(routerOut, S))
            /\ \A c \in Clients : Increasing(IdsOf(gcsOut[c], S))

NoAckFor(i) ==
    /\ Acks(routerOut, i) = <<>>
    /\ \A c \in Clients : Acks(gcsOut[c], i) = <<>>

C14_UnparsedForwardedRaw ==
    /\ [](\A i \in FrameIds :
             ~reads[i].parsed =>
                 /\ reads[i].source = "" /\ reads[i].triggered = <<>>
                 /\ ~reads[i].ack /\ reads[i].actions = <<Forward>>
                 /\ ForwardedRaw(i) /\ NoAckFor(i))
    /\ [][(Len(reads') = Len(reads) + 1 /\ ~reads'[Len(reads')].parsed)
             => /\ activations' = activations /\ pump' = pump
                /\ reads'[Len(reads')].from = Router =>
                       bcast' = bcast \cup
                          (IF clients = {} THEN {}
                           ELSE {[owner |-> "pump",
                                  pkts |-> <<Frame(Len(reads'), 1)>>,
                                  todo |-> clients]})]_vars

\* an unparsed frame of a client is at the router, one of the router at a
\* client
C14_Witness ==
    \E i, j \in FrameIds :
        /\ ~reads[i].parsed /\ ~FromRouter(i)
        /\ Copies(routerOut, i) = <<Original(i)>>
        /\ ~reads[j].parsed /\ FromRouter(j)
        /\ \E c \in clients : Copies(gcsOut[c], j) = <<Original(j)>>

(***************************************************************************)
(* C15: the ACK made for a matched packet is written on the return path    *)
(* of the packet and nowhere else: for a packet of GCS client c to client  *)
(* c alone, never to another client or to the router; for a packet of the  *)
(* router to the router alone, never to a GCS client.                      *)
(***************************************************************************)
AckFor(i) == [Original(i) EXCEPT !.body = "COMMAND_ACK"]

C15_AckOnReturnPathOnly ==
    \A i \in FrameIds :
        LET due == IF reads[i].ack THEN <<AckFor(i)>> ELSE <<>>
        IN  IF FromRouter(i)
            THEN /\ Acks(routerOut, i) = due
                 /\ \A c \in Clients : Acks(gcsOut[c], i) = <<>>
            ELSE /\ Acks(routerOut, i) = <<>>
                 /\ \A c \in Clients :
                       Acks(gcsOut[c], i) = IF c = reads[i].from THEN due ELSE <<>>

\* a client got the ACK of its packet while another client was registered,
\* and the router got the ACK of a packet of its own
C15_Witness ==
    \E i, j \in FrameIds :
        /\ ~FromRouter(i) /\ reads[i].ack
        /\ Acks(gcsOut[reads[i].from], i) = <<AckFor(i)>>
        /\ \E d \in clients : d # reads[i].from
        /\ FromRouter(j) /\ reads[j].ack
        /\ Acks(routerOut, j) = <<AckFor(j)>>

(***************************************************************************)
(* C16: an executor that reaches a Block step stops there.  None of the    *)
(* frames it held is ever written to a sink, and nothing that follows      *)
(* Block in the list runs: the frames are in no delay task, no batch       *)
(* entry, no broadcast and no suspended invocation afterwards.             *)
(***************************************************************************)
\* the frames some task or batch entry still holds
Held ==
    InFlight
      \cup UNION {Ids(t.pkts) : t \in bdelayed}
      \cup UNION {Ids(b.pkts) : b \in bcast}
      \cup UNION {Ids(b.packets) : b \in batches}

C16_BlockStopsTheExecutor ==
    \A i \in blocked :
        /\ Copies(routerOut, i) = <<>>
        /\ \A c \in Clients : Copies(gcsOut[c], i) = <<>>
        /\ i \notin Held

\* both executors reached a Block step that other actions follow, with a
\* client registered that the frame of the router would have gone to
C16_Witness ==
    \E i, j \in blocked :
        /\ ~FromRouter(i) /\ FromRouter(j)
        /\ Len(reads[i].actions) > 1 /\ reads[i].actions[1] = Block
        /\ Len(reads[j].actions) > 1 /\ reads[j].actions[1] = Block
        /\ clients # {}

(***************************************************************************)
(* C17: a Delay step does not hold up its pump.  The executor returns once *)
(* the delay task is spawned: no invocation stays suspended on the frames  *)
(* of a sleeping task, and a frame the same client sends later that needs  *)
(* no delay is at the router while the earlier frame still sleeps.         *)
(***************************************************************************)
Sleeping == {t \in delayed : now < t.deadline}

\* the pump writes frame j itself: no Block, Delay or Batch in its list
Direct(j) == \A k \in 1..Len(reads[j].actions) :
                 reads[j].actions[k].t \in {"Forward", "Modify"}

C17_DelayDoesNotBlockThePump ==
    \A t \in Sleeping :
        /\ \A e \in running : Ids(e.pkts) \cap Ids(t.pkts) = {}
        /\ \A i \in Ids(t.pkts) : \A j \in FrameIds :
              (j > i /\ reads[j].from = reads[i].from /\ Direct(j))
                  => Copies(routerOut, j) # <<>>

\* a delayed frame sleeps, and a frame its sender, still connected, sent
\* after it is at the router
C17_Witness ==
    \E t \in Sleeping : \E i \in Ids(t.pkts) : \E j \in FrameIds :
        /\ j > i /\ reads[j].from = reads[i].from /\ Direct(j)
        /\ reads[i].from \in clients
        /\ Copies(routerOut, i) = <<>>
        /\ Copies(routerOut, j) = <<Original(j)>>

(***************************************************************************)
(* C18: every Delay step resumes.  A delay task spawned for frames F with  *)
(* remaining actions R leaves the set of sleeping tasks only by running    *)
(* the executor on (R, F), not before its deadline, and it does leave it:  *)
(* neither the disconnect of the sender nor the deactivation or expiry of  *)
(* the rule cancels it.                                                    *)
(***************************************************************************)
\* the step runs the executor on the remaining actions and frames of t
Resumes(t) ==
    /\ now >= t.deadline
    /\ t.acts = <<>> => routerOut' = Append(routerOut, Head(t.pkts))

C18_DelayTaskAlwaysResumes ==
    /\ [][\A t \in delayed : t \notin delayed' => Resumes(t)]_vars
    /\ <>[](delayed = {})

\* a delayed frame is at the router, its sender gone and its rule disabled
\* by a packet read after it
C18_Witness ==
    \E i, j \in FrameIds :
        /\ reads[i].actions = <<Delay(1)>>
        /\ Copies(routerOut, i) = <<Original(i)>>
        /\ reads[i].from \notin clients
        /\ j > i /\ reads[j].triggered # <<>>
        /\ ~activations[reads[i].source].enabled

(***************************************************************************)
(* C19: a frame is kept from its sink only by a Block step, for good, or   *)
(* by a Delay step, until its deadline; under every other action sequence  *)
(* each frame a pump reads is written to its sink in the end.  Stated on   *)
(* the runs that have come to rest: every frame that reached no Block step *)
(* is at the router.                                                       *)
(***************************************************************************)
\* no task is left to run and no batch is open
Quiescent ==
    /\ running = {} /\ delayed = {} /\ timeouts = {} /\ batches = {}
    /\ ~tmo.active

DroppedOnTimeout(i) ==
    \E e \in ended :
        /\ e.by = "timeout" /\ ~e.state.forward_on_timeout
        /\ i \in Ids(e.state.packets)

GatherActions == ExecuteAction(RuleGather, TRUE).actions

\* the frames ever queued in a batch, open or removed
EverQueued ==
    UNION {Ids(b.log) : b \in batches} \cup UNION {Ids(e.state.log) : e \in ended}

C20_RouterBatchIsForward ==
    /\ [](/\ \A i \in FrameIds : FromRouter(i) => i \notin EverQueued
          /\ \A i \in FrameIds :
                (FromRouter(i) /\ reads[i].actions = GatherActions) =>
                    /\ Copies(routerOut, i) = <<>>
                    /\ \A c \in Clients :
                          Copies(gcsOut[c], i) \in
                              {<<>>, <<ModifyFrame(Original(i), "disarm")>>}
          /\ BroadcastReachesAll)
    /\ [][/\ RouterFrameBroadcast(FALSE, GatherActions, "disarm")
          /\ BroadcastGoesOn
          /\ (Len(reads') = Len(reads) + 1 /\ reads'[Len(reads')].from = Router)
                => UNCHANGED <<batches, timeouts, nextBatch, ended>>]_vars

\* a batch of the same key is open with the frame of a client; the frame
\* of the router matched the batching rule, did not join it, and is at a
\* client as modified
C20_Witness ==
    \E b \in batches : \E j \in FrameIds :
        /\ b.key = RuleGather.batch_key /\ Len(b.packets) = 1
        /\ FromRouter(j) /\ reads[j].actions = GatherActions
        /\ j \notin Ids(b.log)
        /\ \E c \in clients :
              Copies(gcsOut[c], j) = <<ModifyFrame(Original(j), "disarm")>>

(***************************************************************************)
(* Vocabulary of the rule-state properties.                                *)
(***************************************************************************)
\* the names of the rules list, and what the list says of a name
Seeded == {rules[i].name : i \in 1..Len(rules)}

EnabledByDefault(n) ==
    (CHOOSE r \in {rules[i] : i \in 1..Len(rules)} : r.name = n).enabled_by_default

\* no activate_rule or deactivate_rule call was made on the name so far
Untouched(n) == n \notin DOMAIN last

Disabled == RuleActivation(FALSE, <<>>)

(***************************************************************************)
(* C21: is_rule_enabled answers true for a name that has no activation     *)
(* entry, and for a name of the rules list it answers the rule's           *)
(* enabled_by_default as long as no activate or deactivate call (and so no *)
(* expiry) has touched that name, whatever happens to other names.         *)
(***************************************************************************)
C21_EnabledByDefaultUntilTouched ==
    \A n \in StateNames :
        /\ n \notin DOMAIN activations => IsRuleEnabled(activations, n)
        /\ (Untouched(n) /\ n \in Seeded) =>
               IsRuleEnabled(activations, n) = EnabledByDefault(n)
        /\ (Untouched(n) /\ n \notin Seeded) => n \notin DOMAIN activations

\* seconds have passed and the sweeper has expired an activation of the
\* unlisted name, created by a call; the listed rule, disabled by default
\* and untouched, is still reported disabled
C21_Witness ==
    /\ now >= 2
    /\ Untouched("b") /\ ~EnabledByDefault("b") /\ ~IsRuleEnabled(activations, "b")
    /\ ~Untouched("z") /\ last["z"].op = "activate" /\ last["z"].before = <<>>
    /\ activations["z"] = Disabled

(***************************************************************************)
(* C22: cleanup_expired disables exactly the entries whose expiration is   *)
(* at or before now: such an entry becomes disabled, without expiration    *)
(* and with an empty context, whatever the rule's enabled_by_default; an   *)
(* entry without expiration or with a later one is left as it is, and no   *)
(* entry is added or removed.                                              *)
(***************************************************************************)
Due(a) == a.expiration # <<>> /\ a.expiration[1] <= now

C22_SweepDisablesExactlyTheExpired ==
    [][nextSweep' # nextSweep =>
          /\ DOMAIN activations' = DOMAIN activations
          /\ \A n \in DOMAIN activations :
                 IF Due(activations[n])
                 THEN /\ ~activations'[n].enabled
                      /\ activations'[n].expiration = <<>>
                      /\ activations'[n].context = <<>>
                 ELSE activations'[n] = activations[n]]_vars

\* the sweeper has expired the activation, with a context, of the rule
\* that is enabled by default, and has passed over the later deadline of
\* another name, which keeps its context
C22_Witness ==
    /\ EnabledByDefault("b")
    /\ ~Untouched("b") /\ ~Untouched("z")
    /\ last["b"].op = "activate" /\ last["b"].context # <<>>
    /\ activations["b"] = Disabled
    /\ nextSweep > now
    /\ last["z"].op = "activate" /\ last["z"].deadline > now
    /\ activations["z"].enabled /\ activations["z"].context # <<>>

(***************************************************************************)
(* C23: a rule activated for a duration and not activated again is         *)
(* reported enabled at every moment before its deadline, unless it is      *)
(* deactivated, and is reported disabled from one sweep period after the   *)
(* deadline on; in between it may still be reported enabled.               *)
(***************************************************************************)
C23_DisabledWithinOneSweepPeriod ==
    \A n \in DOMAIN last :
        last[n].op = "activate" =>
            /\ now < last[n].deadline => IsRuleEnabled(activations, n)
            /\ now >= last[n].deadline + SweepPeriod => ~IsRuleEnabled(activations, n)

\* the deadline of one rule has come and the tick that is due has not run
\* yet: the rule is still reported enabled; another was activated for two
\* seconds and a sweep period after its deadline it is reported disabled
C23_Witness ==
    /\ ~Untouched("b") /\ ~Untouched("z")
    /\ last["b"].op = "activate" /\ last["b"].deadline = now
    /\ IsRuleEnabled(activations, "b")
    /\ last["z"].op = "activate" /\ now >= last["z"].deadline + SweepPeriod
    /\ last["z"].before = <<>>
    /\ ~IsRuleEnabled(activations, "z")

(***************************************************************************)
(* C24: when a rule whose triggers have on_match set matches a packet,     *)
(* then as the call returns every rule of activate_rules is enabled with   *)
(* expiration now + duration_seconds and every rule of deactivate_rules is *)
(* disabled.  A rule that is disabled by default and was activated this    *)
(* way applies to the packets processed before its deadline, and to none   *)
(* processed a sweep period or more after it.                              *)
(***************************************************************************)
RuleNamed(n) == CHOOSE r \in {rules[i] : i \in 1..Len(rules)} : r.name = n

Names(seq) == {seq[i] : i \in 1..Len(seq)}

\* the step is a process_message_with_direction call; rec is its record
Processed == Len(reads') = Len(reads) + 1

TriggersTakeEffect ==
    LET rec == reads'[Len(reads')]
        rule == RuleNamed(rec.source)
        tr == rule.triggers[1]
    IN  (Processed /\ rec.source # "" /\ rule.triggers # <<>> /\ tr.on_match) =>
            /\ \A n \in Names(tr.activate_rules) :
                   /\ IsRuleEnabled(activations', n)
                   /\ activations'[n].expiration = <<now + tr.duration_seconds[1]>>
            /\ \A n \in Names(tr.deactivate_rules) : ~IsRuleEnabled(activations', n)

ActivatedRuleApplies ==
    LET rec == reads'[Len(reads')]
    IN  (/\ Processed /\ rec.msg = RuleHold.message_type
         /\ ~Untouched("hold") /\ last["hold"].op = "activate") =>
            /\ now < last["hold"].deadline =>
                   rec.source = "hold" /\ rec.actions = <<Block>>
            /\ now >= last["hold"].deadline + SweepPeriod => rec.source # "hold"

C25_SlowClientDelaysOnlyItself ==
    /\ \A c \in Clients \ {SlowClient} : \A i \in 1..MaxPackets :
           Pending(i, c) ~> ~Pending(i, c)
    /\ (bcast # {}) ~> (bcast = {})
    /\ (running # {}) ~> (running = {})

(***************************************************************************)
(* C26: the threshold, the forward_on_timeout flag, the tail and the       *)
(* timeout of a batch are those of the call that created it.  Later        *)
(* queue_or_release calls on the key change none of them, even when they   *)
(* come with other parameters; a release hands back the stored tail, not   *)
(* that of the releasing call; and a timeout task is spawned only with a   *)
(* new batch, one per batch.                                               *)
(***************************************************************************)
CreatedWith(b) ==
    /\ b.threshold = Head(b.call).count
    /\ b.forward_on_timeout = Head(b.call).forward_on_timeout
    /\ b.remaining_actions = Tail(b.call)

\* the step releases a batch by threshold and the executor goes on with
\* the tail of the creating call on the released frames
ReleaseRunsStoredTail ==
    \A e \in ended' \ ended :
        e.by = "threshold" =>
            LET r == ExecuteActionsImpl(Tail(e.state.call), e.released)
            IN  /\ Release(e.state).remaining_actions = Tail(e.state.call)
                /\ r.kind \in {"write", "batch"} =>
                       \E x \in running' \ running : x.acts = r.acts /\ x.pkts = r.pkts
                /\ r.kind = "done" =>
                       /\ running' \subseteq running
                       /\ routerOut' = routerOut
                       /\ Ids(e.released) \subseteq blocked'

OneTimeoutTaskPerBatch ==
    /\ \A t \in timeouts' \ timeouts :
           /\ nextBatch' = nextBatch + 1 /\ t.spawnedFor = nextBatch
           /\ timeouts' = timeouts \cup {t}
           /\ \E b \in batches' \cup {e.state : e \in ended' \ ended} :
                  /\ b.id = t.spawnedFor /\ b.key = t.key
                  /\ t.deadline = b.created_at + Head(b.call).timeout
    /\ nextBatch' # nextBatch => timeouts' # timeouts

C26_BatchParametersFixedAtCreation ==
    /\ [](/\ \A b \in batches : CreatedWith(b)
          /\ \A e \in ended : CreatedWith(e.state)
          /\ \A t1, t2 \in timeouts : t1.spawnedFor = t2.spawnedFor => t1 = t2)
    /\ [][ReleaseRunsStoredTail /\ OneTimeoutTaskPerBatch]_vars

\* a batch made for system 1 with threshold two was released by the call
\* for system 2, which asked for a threshold of three, no forwarding on
\* timeout and a Block as tail: the release came at two systems and the
\* tail of the creating call, a Batch step, ran on it
C26_Witness ==
    \E e \in ended :
        /\ e.by = "threshold" /\ e.state.call = TailActions(1)
        /\ IdSeq(e.state.log) = <<1, 2>> /\ e.state.log[2].sys = 2
        /\ Ids(e.released) \cap blocked = {}
        /\ \E b \in batches \cup {x.state : x \in ended} :
               b.key = "land" /\ Head(b.log) = Head(e.released)

\* C27: in the router-to-GCS direction a frame reaches the clients as the
\* broadcast variant of the executor delivers its action list: a frame whose
\* list ends at a Block is written to no client, a frame whose list has a
\* Delay of d is written to no client before d has passed, and a frame
\* whose list has a Modify is written to the clients only as modified;
\* only a list of nothing but Forward is broadcast as read.
RouterReads == {i \in DOMAIN reads : reads[i].from = Router}

\* the frames with id i written to the clients so far
Delivered(i) ==
    UNION {{gcsOut[c][k] : k \in {j \in DOMAIN gcsOut[c] : gcsOut[c][j].id = i}} :
           c \in Clients}

C27_RouterListsRunThroughExecutor ==
    \A i \in RouterReads :
        LET r == ExecuteActionsImplBroadcast(reads[i].actions, <<Frame(i, 1)>>)
        IN  /\ r.kind = "done" => Delivered(i) = {}
            /\ r.kind = "delay" /\ now < r.d => Delivered(i) = {}
            /\ r.kind = "write" => Delivered(i) \subseteq {r.pkts[1]}

\* C28: the entry of a rule is the one its most recent activate or
\* deactivate call wrote.  After an activate it is enabled with the call's
\* deadline and the call's context, whatever expiry and context it had
\* before, until a sweep at or after that deadline disables it.  After a
\* deactivate it is disabled without expiry or context, and no sweep
\* changes it.
Activated(c) == [enabled |-> TRUE, expiration |-> <<c.deadline>>, context |-> c.context]

C28_LastCallSetsTheEntry ==
    \A n \in DOMAIN last :
        LET c == last[n] IN
        /\ n \in DOMAIN activations
        /\ c.op = "deactivate" => activations[n] = Disabled
        /\ c.op = "activate" =>
               \/ activations[n] = Activated(c)
               \/ now >= c.deadline /\ activations[n] = Disabled

\* "b" was activated over an entry with a later deadline and another
\* context and a sweep at the new deadline, before the old one, has
\* disabled it; "z" was deactivated while it carried an expiration, and a
\* sweep has run after that expiration
C28_Witness ==
    /\ ~Untouched("b") /\ ~Untouched("z")
    /\ last["b"].op = "activate" /\ last["b"].before # <<>>
    /\ last["b"].before[1].expiration # <<>>
    /\ last["b"].before[1].expiration[1] > now
    /\ last["b"].before[1].context # last["b"].context
    /\ now = last["b"].deadline /\ activations["b"] = Disabled
    /\ last["z"].op = "deactivate" /\ last["z"].before # <<>>
    /\ last["z"].before[1].expiration # <<>>
    /\ last["z"].before[1].expiration[1] <= now /\ nextSweep > now

\* C29: a Batch step that receives more than one frame passes the first
\* frame alone to the aggregator: whenever a threshold release of several
\* frames ran a tail that begins with a Batch step, the first released
\* frame is, once that step has run, in the log of a batch of the step's
\* key, and the other released frames are in the log of no such batch and
\* are not written to the router.
EverBatched(key) ==
    UNION {Ids(b.log) : b \in {x \in batches \cup {e.state : e \in ended} : x.key = key}}

SeveralIntoBatch ==
    {e \in ended : /\ e.by = "threshold"
                   /\ Len(e.released) > 1
                   /\ e.state.remaining_actions # <<>>
                   /\ Head(e.state.remaining_actions).t = "Batch"}

C29_BatchStepTakesFirstFrameOnly ==
    \A e \in SeveralIntoBatch :
        LET key == Head(e.state.remaining_actions).key
            rest == Ids(Tail(e.released))
        IN  /\ (\A x \in running : x.pkts # e.released) =>
                   Head(e.released).id \in EverBatched(key)
            /\ rest \cap EverBatched(key) = {}
            /\ rest \cap Ids(routerOut) = {}

\* two frames were released into the Batch step under "land"; the first
\* went through the aggregator and on to the router, the second did not
C29_Witness ==
    \E e \in SeveralIntoBatch :
        /\ Len(e.released) = 2
        /\ Head(e.released).id \in Ids(routerOut)
        /\ e.released[2].id \notin Ids(routerOut)
        /\ running = {}

\* C30: when the modifier script fails, or the rule names no modifier, the
\* returned list has Forward where the rule says modify and, at every other
\* position, the action it has when the modifier succeeds; the ACK
\* descriptor is the one of the successful call; and the executor, run on
\* the list to its end, writes the frame as read unless an action other
\* than modify and forward ends or holds it.
ModifierFailed(s) ==
    /\ s.pc = "done" /\ s.source # ""
    /\ \E i \in DOMAIN GetActions(RuleNamed(s.source)) :
           GetActions(RuleNamed(s.source))[i] = "modify"
    /\ RuleNamed(s.source).modifier = <<>> \/ s.modifier_ok = <<FALSE>>

\* the executor followed through its Delay tasks
RECURSIVE RunToEnd(_, _)
RunToEnd(acts, pkts) ==
    LET r == ExecuteActionsImpl(acts, pkts)
    IN  IF r.kind = "delay" THEN RunToEnd(r.acts, r.pkts) ELSE r

C30_FailedModifyBecomesForward ==
    \A p \in Pumps :
        ModifierFailed(pump[p]) =>
            LET s == pump[p]
                rule == RuleNamed(s.source)
                names == GetActions(rule)
                ok == ExecuteAction(rule, TRUE)
                f == Frame(1, s.pkt.sys)
                out == RunToEnd(s.actions, <<f>>)
            IN  /\ DOMAIN s.actions = DOMAIN names
                /\ \A i \in DOMAIN names :
                       s.actions[i] = IF names[i] = "modify" THEN Forward
                                      ELSE ok.actions[i]
                /\ s.ack_info = ok.ack_info
                /\ out.kind = "write" => out.pkts = <<f>>
                /\ Names(names) \subseteq {"modify", "forward", "delay"} =>
                       out.kind = "write"

\* the script failed for the acknowledged rule that delays, modifies and
\* forwards, and the other pump matched the rule without a modifier
C30_Witness ==
    /\ ModifierFailed(pump["gcs_to_router"])
    /\ pump["gcs_to_router"].source = "edit"
    /\ pump["gcs_to_router"].actions = <<Delay(1), Forward, Forward>>
    /\ pump["gcs_to_router"].ack_info # <<>>
    /\ ModifierFailed(pump["router_to_gcs"])
    /\ pump["router_to_gcs"].source = "bare"
    /\ pump["router_to_gcs"].actions = <<Forward, Forward>>

\* C31: a Modify step maps its frames one to one, in order: a frame that
\* parses and encodes comes out with its own header and the modified
\* message, every other frame comes out as it went in, and the executor
\* goes on with the remaining actions on as many frames as the step got.
Reencoded(f, m) ==
    IF m # "" /\ f.body \notin {"garbled", "unencodable"}
    THEN [id |-> f.id, sys |-> f.sys, body |-> m]
    ELSE f

ModifyStepMapsFrames ==
    \A e \in running \ running' :
        (e.acts # <<>> /\ Head(e.acts).t = "Modify") =>
            LET m == Head(e.acts).msg
                out == [i \in 1..Len(e.pkts) |-> Reencoded(e.pkts[i], m)]
                rest == Tail(e.acts)
                held == {a \in 1..Len(rest) : rest[a].t # "Forward"}
            IN  IF held = {}
                THEN /\ routerOut' = Append(routerOut, out[1])
                     /\ running' = IF Len(out) = 1 THEN {}
                                   ELSE {Ctx(e.owner, <<>>, Tail(out))}
                     /\ delayed' = delayed
                ELSE /\ routerOut' = routerOut
                     /\ running' = {}
                     /\ \E t \in delayed' \ delayed :
                            /\ delayed' = delayed \cup {t}
                            /\ t.pkts = out
                            /\ Len(t.pkts) = Len(e.pkts)

C31_ModifyKeepsCountAndOrder == [][ModifyStepMapsFrames]_vars

\* three frames went through a Modify step and on to the router: the one
\* that parses and encodes was rewritten, the garbled one and the one that
\* does not encode arrived as they were, in their order
C31_Witness ==
    /\ running = {} /\ delayed = {} /\ Len(routerOut) = 3
    /\ routerOut[1] = [id |-> 1, sys |-> 1, body |-> "garbled"]
    /\ routerOut[2] = [id |-> 2, sys |-> 1, body |-> "disarm"]
    /\ routerOut[3] = [id |-> 3, sys |-> 1, body |-> "unencodable"]

\* C32: the ACK never changes what is done with the packet.  Each read of
\* a client pump runs the action list of the matched rule, whether the ACK
\* was written, could not be built or could not be sent: the frame is
\* written to the router, handed to a Delay task or blocked as that list
\* says.  The ACK is written to the reading client in the same turn, before
\* anything the list does later, exactly when the rule asks for one, its
\* type can be built and the write succeeds.
AckTurn ==
    LET rec == reads'[Len(reads')]
        c == rec.from
        f == [id |-> nextFrame, sys |-> c, body |-> "orig"]
        rule == RuleNamed(rec.source)
        list == IF rec.source = "" THEN <<Forward>>
                ELSE ExecuteAction(rule, TRUE).actions
        r == ExecuteActionsImpl(list, <<f>>)
        acked == /\ rec.source # "" /\ rule.auto_ack /\ rule.ack # <<>>
                 /\ rule.ack[1] \in {"COMMAND_ACK"}
                 /\ c # BrokenClient
    IN  /\ rec.actions = list
        /\ r.kind = "write" =>
               routerOut' = Append(routerOut, f) /\ delayed' = delayed
        /\ r.kind = "delay" =>
               /\ routerOut' = routerOut
               /\ delayed' = delayed \cup {[deadline |-> now + r.d, acts |-> r.acts,
                                            pkts |-> <<f>>]}
        /\ r.kind = "done" =>
               routerOut' = routerOut /\ delayed' = delayed /\ f.id \in blocked'
        /\ gcsOut' = IF acked
                     THEN [gcsOut EXCEPT ![c] =
                              Append(@, [id |-> f.id, sys |-> c, body |-> rule.ack[1]])]
                     ELSE gcsOut

C32_AckLeavesActionsAlone == [][Processed => AckTurn]_vars

\* the first frame was acknowledged at once and is still held by its Delay
\* task; the second matched the rule whose ACK cannot be built and went to
\* the router without an ACK
C32_Witness ==
    /\ Len(reads) = 2
    /\ reads[1].source = "ad" /\ reads[1].from = 1
    /\ \E t \in delayed : t.pkts[1].id = 1
    /\ Acks(gcsOut[1], 1) # <<>>
    /\ reads[2].source = "au" /\ reads[2].ack
    /\ Copies(routerOut, 2) # <<>>
    /\ \A c \in Clients : \A k \in DOMAIN gcsOut[c] : gcsOut[c][k].id # 2

\* C33: a broadcast writes to the clients that are registered when it
\* runs.  A broadcast that starts, from the router pump or from a Delay
\* task that wakes, is owed to exactly the registry of that moment; a
\* client gets a frame only while it is registered and only from a
\* broadcast that still owes it the frame; a client once removed gets
\* nothing more.
BroadcastStart ==
    \A b \in bcast' \ bcast :
        \/ b.todo = clients'
        \/ \E old \in bcast \ bcast' :
               b = [old EXCEPT !.todo = old.todo \ {NextClient(old.todo)}]

BroadcastWrites ==
    \A c \in Clients :
        gcsOut'[c] # gcsOut[c] =>
            /\ c \in clients
            /\ \E b \in bcast : /\ c \in b.todo
                                 /\ gcsOut'[c] = Append(gcsOut[c], Head(b.pkts))

C33_BroadcastToCurrentRegistry ==
    /\ [](\A b \in bcast : b.todo \subseteq clients)
    /\ [][BroadcastStart /\ BroadcastWrites]_vars

\* the first router frame went to client 1, the only one registered; the
\* second was held by a Delay task while client 1 left and client 2 came,
\* and was delivered to client 2 alone
C33_Witness ==
    /\ Len(reads) = 2 /\ reads[2].source = "dm"
    /\ clients = {2}
    /\ IdSeq(gcsOut[1]) = <<1>>
    /\ IdSeq(gcsOut[2]) = <<2>>
    /\ bcast = {} /\ bdelayed = {}

\* C35: the timeout of a batch runs from its creation and later frames
\* neither restart nor extend it.  While a batch is open the one task
\* spawned at its creation is pending, due at created_at plus the timeout
\* of the creating call; a timeout ends the batch with every frame it got,
\* all forwarded or all dropped; and a batch made later under the same key
\* holds none of those frames and has a task of its own.
OwnTask(b) ==
    {t \in timeouts : t.spawnedFor = b.id}

Ended == {e.state : e \in ended}

InMap(id) == \E b \in batches : b.id = id

C36_EveryBatchIsRemoved ==
    /\ [](\A b \in batches : now <= b.created_at + Head(b.call).timeout)
    /\ \A id \in 1..MaxPackets :
           InMap(id) ~> (~InMap(id) /\ \E e \in ended : e.batch = id)

\* a batch that got two frames of one system, short of its threshold, was
\* removed by its timeout one second after its creation; the map is empty
C36_Witness ==
    /\ batches = {}
    /\ \E e \in ended :
           /\ e.by = "timeout" /\ Len(e.state.log) = 2
           /\ now = e.state.created_at + Head(e.state.call).timeout

(***************************************************************************)
\* C37: read_frame scans byte by byte for the v2 start marker 0xFD and
\* drops what comes before it; the frame it returns starts with that marker
\* and is the 12 + (length byte) contiguous bytes of the stream from there;
\* when the stream ends before the frame is complete the call returns an
\* error and never a partial frame.
FirstMagic(st) ==
    IF \E i \in 1..Len(st) : st[i] = MAGIC
    THEN CHOOSE i \in 1..Len(st) :
            st[i] = MAGIC /\ \A k \in 1..(i - 1) : st[k] # MAGIC
    ELSE 0

WholeFrame(st) ==
    LET m == FirstMagic(st) IN
    /\ m # 0
    /\ m + 1 <= Len(st)
    /\ m + 11 + st[m + 1] <= Len(st)

C37_ReadFrameCutsOneWholeFrame ==
    LET st == reader.stream
        m == FirstMagic(st) IN
    /\ reader.pc = "ok" =>
          /\ WholeFrame(st)
          /\ reader.result = <<SubSeq(st, m, m + 11 + st[m + 1])>>
          /\ reader.result[1][1] = MAGIC
          /\ Len(reader.result[1]) = 12 + reader.result[1][2]
          /\ reader.pos = m + 11 + st[m + 1]
    /\ reader.pc = "err" => ~WholeFrame(st) /\ reader.result = <<>>
    /\ reader.result # <<>> => reader.pc = "ok"

\* a frame with a two-byte payload is returned from behind two junk bytes;
\* it holds a second 0xFD and leaves one byte of the stream unread
C37_Witness ==
    /\ reader.pc = "ok"
    /\ FirstMagic(reader.stream) = 3
    /\ Len(reader.result[1]) = 14
    /\ \E k \in 2..14 : reader.result[1][k] = MAGIC
    /\ reader.pos = Len(reader.stream) - 1

(***************************************************************************)
\* C38: the executor is never invoked on a Batch step with an empty frame
\* list: the pump, the delay task and the threshold release each pass at
\* least one frame, a batch in the map always holds one (so a timeout
\* release has one too), and no task has died taking the first frame.
AtBatchStep(acts) == acts # <<>> /\ Head(acts).t = "Batch"

C38_BatchStepAlwaysHasAFrame ==
    /\ \A e \in running : e.pkts # <<>>
    /\ \A t \in delayed : t.pkts # <<>>
    /\ \A b \in batches : b.packets # <<>>
    /\ \A e \in ended : e.by = "threshold" => e.released # <<>>
    /\ \A e \in ended : e.by = "timeout" /\ e.state.forward_on_timeout
                            => e.released # <<>>
    /\ ~\E e \in running : AtBatchStep(e.acts) /\ e.pkts = <<>>

\* a delayed frame and a modified frame of two systems were released
\* together at the threshold into a tail that batches again: the first of
\* the two went through the second batch and out to the router
C38_Witness ==
    /\ \E e \in ended :
          /\ e.by = "threshold"
          /\ e.state.key = "arm"
          /\ Len(e.released) = 2
          /\ AtBatchStep(e.state.remaining_actions)
          /\ \E e2 \in ended :
                /\ e2.state.key = "land"
                /\ e2.released = <<Head(e.released)>>
                /\ routerOut = e2.released

(***************************************************************************)
\* C40: within one process call on a matching rule the triggers run first,
\* then the plugins, then the actions and the ACK are built; within the
\* triggers every activation is made before every deactivation, so a rule
\* named in both lists ends disabled; a rule that deactivates itself still
\* returns its own actions and ACK for the packet that matched it and is
\* skipped only by calls that read it after that.
ActivationsFirst(calls) ==
    \A i, j \in 1..Len(calls) :
        calls[i].op = "activate" /\ calls[j].op = "deactivate" => i < j

\* what the call read when it examined the rule named n
ReadAs(s, n) == {s.checks[i].enabled : i \in {k \in 1..Len(s.checks) : s.checks[k].name = n}}

C40_TriggersThenPluginsThenActions ==
    \A p \in Pumps :
        LET s == pump[p] IN
        /\ ActivationsFirst(s.triggered) /\ ActivationsFirst(s.pending)
        /\ s.pending # <<>> => \A i \in 1..Len(s.triggered) :
                                   s.triggered[i].op = "activate"
                                   \/ Head(s.pending).op = "deactivate"
        /\ s.pc = "triggers" =>
              s.plugins_run = <<>> /\ s.actions = <<>> /\ s.ack_info = <<>>
        /\ s.pc = "done" /\ s.source # "" =>
              /\ s.triggered = OnMatchTriggers(RuleNamed(s.source))
              /\ s.plugins_run = ExecutePlugins(RuleNamed(s.source))
        /\ s.pc = "done" /\ s.source = "self" =>
              /\ ~IsRuleEnabled(activations, "twice")
              /\ ~IsRuleEnabled(activations, "self")
              /\ s.actions = <<Block>>
              /\ s.ack_info = BuildAckInfo(RuleSelf)
        /\ s.source = "self" => ReadAs(s, "self") = {<<TRUE>>}
        /\ <<FALSE>> \in ReadAs(s, "self") => s.source # "self"

\* the rule that deactivates itself has matched the first packet and
\* returned its Block and its ACK after its three state-manager calls and
\* its plugin; the other pump then read it as disabled and passed it by
C40_Witness ==
    /\ pump["gcs_to_router"].pc = "done"
    /\ pump["gcs_to_router"].source = "self"
    /\ Len(pump["gcs_to_router"].triggered) = 3
    /\ pump["gcs_to_router"].plugins_run # <<>>
    /\ pump["gcs_to_router"].actions = <<Block>>
    /\ pump["gcs_to_router"].ack_info # <<>>
    /\ pump["router_to_gcs"].pc = "done"
    /\ pump["router_to_gcs"].pkt.msg = "COMMAND_LONG"
    /\ ReadAs(pump["router_to_gcs"], "self") = {<<FALSE>>}
    /\ ReadAs(pump["router_to_gcs"], "twice") = {<<FALSE>>}
    /\ pump["router_to_gcs"].actions = <<Forward>>

(***************************************************************************)
\* C34: at most one task writes to the router write half at a time and at
\* most one task writes to a given GCS client at a time, so every frame
\* written by client pumps, delay tasks, batch releases, ACK writes and
\* broadcasts is on the wire as one contiguous frame.
Writers(s) ==
    {t \in TaskIds : tasks[t] # <<>> /\ Head(tasks[t]).op = "write"
                                     /\ Head(tasks[t]).sink = s}

\* every first chunk is followed at once by the second chunk of its frame,
\* every second chunk follows its first
Contiguous(w) ==
    \A i \in 1..Len(w) :
        /\ w[i].chunk = 1 /\ i < Len(w) =>
              w[i + 1].chunk = 2 /\ w[i + 1].frame = w[i].frame
        /\ w[i].chunk = 2 =>
              i > 1 /\ w[i - 1].chunk = 1 /\ w[i - 1].frame = w[i].frame

C34_FramesNeverInterleave ==
    /\ \A l \in LockNames : \A h \in locks[l].holders :
           h.mode = "write" => locks[l].holders = {h}
    /\ \A s \in Sinks : Cardinality(Writers(s)) <= 1
    /\ \A s \in Sinks : Contiguous(wire[s])

\* two whole frames of two tasks are on the router's wire, a third task
\* has written half of its frame and a fourth waits for the lock
C34_Witness ==
    LET w == wire[RouterSink] IN
    /\ Len(w) = 5
    /\ w[5].chunk = 1
    /\ Cardinality({w[i].by : i \in 1..5}) = 3
    /\ locks[RouterLock].queue # <<>>
    /\ locks[RouterLock].holders = {[task |-> w[5].by, mode |-> "write"]}

(***************************************************************************)
\* C39: lock acquisition is deadlock-free: provided socket writes complete,
\* every task that requests the batch-map lock, the registry lock, a client
\* write lock or the router write lock eventually obtains it, and every
\* task runs to its end.
C39_EveryRequestIsGranted ==
    /\ \A t \in 1..MaxTasks : Waiting(t) ~> ~Waiting(t)
    /\ <>(\A t \in DOMAIN tasks : tasks[t] = <<>>)

\* the broadcast holds the registry for reading and waits for a client
\* lock, the accept loop waits to write the registry and a pump's lookup
\* waits behind it
C39_Witness ==
    /\ \E h \in locks[RegistryLock].holders : h.mode = "read"
    /\ Len(locks[RegistryLock].queue) = 2
    /\ locks[RegistryLock].queue[1].mode = "write"
    /\ locks[RegistryLock].queue[2].mode = "read"
    /\ \E c \in Clients : locks[ClientLock(c)].queue # <<>>


====
